---- MODULE Spec2Model ----
(***************************************************************************)
(* A model of natter_go: the STUN probe (internal/stun), the per-endpoint  *)
(* control loop and the orchestrator (internal/orchestrator), the status   *)
(* manager (internal/status) and the TCP keep-alive loop                   *)
(* (internal/keepalive).                                                   *)
(*                                                                         *)
(* Durations are in whole seconds.  Addresses are records [ip, port]; a    *)
(* formatted "IP:port" string is the pair <<ip, port>>.                    *)
(***************************************************************************)
EXTENDS Integers, Sequences, FiniteSets, TLC

VARIABLES
    \* ---- STUN client, one call (SpecStun)
    stun,
    \* ---- orchestrator, control loops and status manager (Spec)
    ctxDone,      \* the root context is cancelled
    down,         \* environment: the protocols whose STUN servers are all unreachable
    nat,          \* environment: the NAT's current outer address per (protocol, port)
    wpc,          \* runWorker: position of each control loop
    lastOuter,    \* runWorker: local lastOuter
    outer,        \* runWorker: local outer of the current iteration
    probes,       \* number of probes the control loops have made
    Updates,      \* StatusManager.Updates, the buffered channel
    smPc,         \* StatusManager.Run: "run" or "exited"
    mappings,     \* StatusManager.mappings: protocol -> inner -> outer
    file,         \* the status file's content
    fileWrites,   \* number of times the status file was rewritten
    hooks,        \* the hook commands spawned: command -> number of spawns
    \* ---- history (not program state)
    enq,          \* per endpoint: the number of events its control loop enqueued
    resp,         \* per endpoint: the outers its probes' STUN responses carried, repeats dropped
    lastEnq,      \* per protocol and inner: the outer of the last event enqueued
    \* ---- TCPKeepAlive, one loop (SpecKA)
    kaPc,         \* position: "off", "top", "backoff", "read", "wait" or "done"
    kaInterval,   \* local interval, after minInterval
    kaBackoff,    \* local backoff
    kaConn,       \* local conn: Nil or the connection's state, "open"
    kaDials,      \* history: number of dial attempts
    kaWaits,      \* history: the backoff waits since the last successful dial (or the start)
    kaWaited,     \* history: a wait has ended since the last dial attempt
    kaDialed,     \* history: the local addresses the dial attempts were bound to
    kaOpen,       \* the connections the loop has dialed and not closed
    \* ---- UDPKeepAlive, one loop (SpecKA)
    ukPc,         \* position: "off", "resolve", "retry" (resolve failed), "wait" or "done"
    \* ---- the sockets on the monitored ports (SpecPort)
    portCfg,      \* the configuration drawn: open endpoints and whether a forwarder is paired
    runPc,        \* Run: "off", "forwarders", "tcp", "udp", "started" or "returned"
    tasks,        \* the goroutines Run has started that have not terminated
    socks,        \* the open sockets of the process
    bindFails,    \* history: the binds that failed because a socket of the process held the port
    \* ---- TCPForwarder, one started forwarder (SpecTcpFwd)
    tfListener,   \* f.listener: Nil, "open" or "closed"
    tfPc,         \* acceptLoop: "off", "select", "accept" or "done"
    tfBacklog,    \* environment: connections established and not yet accepted
    tfConns,      \* one record per accepted connection: its handler, sockets, peers and copiers
    tfStop,       \* Stop: "idle", "wait" (in f.wg.Wait()) or "returned"
    tfWg,         \* f.wg: the WaitGroup's counter
    \* ---- UDPForwarder, one started forwarder (SpecUdpFwd)
    ufConn,       \* f.conn: Nil, "open" or "closed"
    ufPc,         \* acceptLoop: "off", "select", "read", "lookup", "write" or "done"
    ufCur,        \* acceptLoop: clientAddr of the datagram being handled
    ufSrv,        \* acceptLoop: srvConn, the sub-socket it writes to
    ufClients,    \* f.clients: client address -> sub-socket
    ufSocks,      \* every sub-socket dialed: its client, its state and its reverse pump
    ufIn,         \* environment: the clients with a datagram waiting in f.conn
    ufStop,       \* Stop: "idle", "closing", "wait" (in f.wg.Wait()) or "returned"
    ufLockedIO,   \* history: the network operations made under f.clientsMu by its last holder
    \* ---- the status manager's file, write by write (SpecFile)
    sfTable,      \* m.mappings
    sfFile,       \* the content of the status file, as a reader opening it would find it
    sfPc,         \* handleEvent: "off", "idle", "truncate", "encode" or "hook"
    sfEvents,     \* number of events handled
    sfWrote,      \* history: the documents written, each with the table it was written from
    \* ---- the TCP control loops and the status manager on a clock (SpecTimed)
    frNow,        \* the time, in seconds since Run started the loops
    frPc,         \* runWorker: "call" (about to probe), "flight", "send" or "sleep", per endpoint
    frSince,      \* the time the probe in flight was started, or the time the wait began
    frLast,       \* runWorker: local lastOuter
    frOuter,      \* runWorker: local outer
    frFlying,     \* the probes in flight, per endpoint that issued them
    frQueue,      \* StatusManager.Updates
    frTable,      \* StatusManager.mappings, which is what the status file shows
    frSeen,       \* history: the time of the endpoint's last successful STUN observation
    \* ---- New, "Prepare forwarders" (SpecNew)
    nwCfg,        \* cfg.OpenPort.TCP and cfg.ForwardPort.TCP
    nwFwds,       \* n.tcpFwds
    nwPc          \* New: "off", "prepare" or "done"

stunVars == <<stun>>
orchVars == <<ctxDone, down, nat, wpc, lastOuter, outer, probes, Updates, smPc,
              mappings, file, fileWrites, hooks, enq, resp, lastEnq>>
kaVars == <<kaPc, kaInterval, kaBackoff, kaConn, kaDials, kaWaits, kaWaited, kaDialed, kaOpen, ukPc>>
portVars == <<portCfg, runPc, tasks, socks, bindFails>>
tfVars == <<tfListener, tfPc, tfBacklog, tfConns, tfStop, tfWg>>
ufVars == <<ufConn, ufPc, ufCur, ufSrv, ufClients, ufSocks, ufIn, ufStop, ufLockedIO>>
sfVars == <<sfTable, sfFile, sfPc, sfEvents, sfWrote>>
frVars == <<frNow, frPc, frSince, frLast, frOuter, frFlying, frQueue, frTable, frSeen>>
nwVars == <<nwCfg, nwFwds, nwPc>>
lateVars == <<frVars, nwVars>>
extVars == <<tfVars, ufVars, sfVars, lateVars>>
vars == <<stunVars, orchVars, kaVars, portVars, extVars>>

Nil == "nil"

\* No forwarder has been constructed.
TFIdle ==
    /\ tfListener = Nil /\ tfPc = "off" /\ tfBacklog = 0 /\ tfConns = <<>> /\ tfStop = "idle"
    /\ tfWg = 0

\* `clients: make(map[string]*net.UDPConn)`
NoClients == [k \in {} |-> 0]

UFIdle ==
    /\ ufConn = Nil /\ ufPc = "off" /\ ufCur = Nil /\ ufSrv = 0 /\ ufClients = NoClients
    /\ ufSocks = <<>> /\ ufIn = {} /\ ufStop = "idle" /\ ufLockedIO = {}

\* No status manager has been constructed.
SFIdle ==
    /\ sfTable = <<>> /\ sfFile = [state |-> "empty"] /\ sfPc = "off" /\ sfEvents = 0
    /\ sfWrote = {}

\* No control loop runs on the clock.
FRIdle ==
    /\ frNow = 0 /\ frPc = <<>> /\ frSince = <<>> /\ frLast = <<>> /\ frOuter = <<>>
    /\ frFlying = <<>> /\ frQueue = <<>> /\ frTable = <<>> /\ frSeen = <<>>

\* New has not been called.
NWIdle == nwCfg = Nil /\ nwFwds = <<>> /\ nwPc = "off"

LateIdle == FRIdle /\ NWIdle

ExtIdle == TFIdle /\ UFIdle /\ SFIdle /\ LateIdle

\* Run has not been called: no socket of the process exists.
PortIdle ==
    /\ portCfg = [tcp |-> Nil] /\ runPc = "off" /\ tasks = {} /\ socks = {} /\ bindFails = {}


(***************************************************************************)
(* Bounds of the model.                                                    *)
(***************************************************************************)
MaxServers == 2      \* SpecStun: longest STUN server list drawn
MaxDials == 8        \* SpecKA: dial attempts of the keep-alive loop
MaxProbes == 3       \* Spec: probes made by all control loops together
UpdatesCap == 2      \* Spec: capacity of the Updates channel (100 in the code)
MaxEvents == 4       \* SpecFile: events the status manager handles
MaxList == 2         \* SpecNew: longest open_port.tcp and forward_port.tcp list drawn
MaxTime == 7         \* SpecTimed: seconds the clock runs
MaxSockets == 3      \* SpecUdpFwd: sub-sockets the forwarder dials
MaxConns == 1        \* SpecTcpFwd: connections clients make to the forwarder

(***************************************************************************)
(* Configuration (the README's example, with one UDP endpoint added).      *)
(***************************************************************************)
OutboundIP == "192.168.1.10"
UnspecifiedIP == "0.0.0.0"

tcpServers == <<"stun.l.google.com", "stun1.l.google.com">>
udpServers == <<"stun.l.google.com", "stun1.l.google.com">>

\* The external addresses a NAT hands out (spec scenario 2: port 51900, then 51901).
OuterA == [ip |-> "203.0.113.4", port |-> 51900]
OuterB == [ip |-> "203.0.113.4", port |-> 51901]
NatOuters == {OuterA, OuterB}

(***************************************************************************)
(* internal/stun: one server's part of GetUDPMapping / GetTCPMapping.      *)
(*                                                                         *)
(* What the network does with one server is the input o:                   *)
(*   "resolve_fail"  net.ResolveUDPAddr fails (UDP only)                   *)
(*   "dial_fail"     the dial (bind or connect) fails                      *)
(*   "start_err"     client.Do cannot start the transaction (write error): *)
(*                   Do returns the error, the callback never runs         *)
(*   "timeout"       the callback runs with ev.Error set; Do returns nil   *)
(*   "no_xor"        a response without XOR-MAPPED-ADDRESS: GetFrom fails  *)
(*                   in the callback; Do returns nil                       *)
(*   "ok"            a response with XOR-MAPPED-ADDRESS                    *)
(***************************************************************************)
UDPOutcomes == {"resolve_fail", "dial_fail", "start_err", "timeout", "no_xor", "ok"}
TCPOutcomes == {"dial_fail", "start_err", "timeout", "no_xor", "ok"}

\* pion/stun Client.Do: the error of Start, or nil once the callback has run.
DoReturn(o) == IF o = "start_err" THEN "ErrStart" ELSE Nil

\* The error the callback computes: ev.Error, or the error of xorAddr.GetFrom.
CallbackErr(o) ==
    IF o = "timeout" THEN "ErrTransactionTimeOut"
    ELSE IF o = "no_xor" THEN "ErrAttributeNotFound"
    ELSE Nil

\* var xorAddr stun.XORMappedAddress: the zero value unless GetFrom filled it.
ZeroXorAddr == [ip |-> "<nil>", port |-> 0]
XorAddr(o, natOuter) == IF o = "ok" THEN natOuter ELSE ZeroXorAddr

Mapping(bindIP, srcPort, xorAddr) ==
    [InternalIP |-> bindIP, InternalPort |-> srcPort,
     ExternalIP |-> xorAddr.ip, ExternalPort |-> xorAddr.port]

NoMapping == [InternalIP |-> Nil, InternalPort |-> 0, ExternalIP |-> Nil, ExternalPort |-> 0]

\* GetUDPMapping, `err = client.Do(message, func(ev) {... err = ev.Error ...})`:
\* the callback writes err while Do runs, then the assignment stores Do's
\* return value in the same variable.
UDPErrAfterDo(o) == DoReturn(o)

\* (mutant) the callback's error shares the variable that Do's return value overwrites.
TCPErrAfterDoShared(o) == DoReturn(o)

\* GetTCPMapping keeps the callback's error in txnErr:
\* `if err != nil || txnErr != nil { if err == nil { err = txnErr } ... continue }`.
TCPErrAfterDo(o) == IF DoReturn(o) # Nil THEN DoReturn(o) ELSE CallbackErr(o)

\* The loop over c.udpServers from server i on; outs[i] is what happens with server i.
\* tried is the index of the server the call returned from (Len + 1: list exhausted).
RECURSIVE GetUDPMapping(_, _, _, _, _, _)
GetUDPMapping(servers, outs, natOuter, bindIP, srcPort, i) ==
    IF i > Len(servers)
    THEN [err |-> "all UDP STUN servers failed", mapping |-> NoMapping, tried |-> i]
    ELSE IF outs[i] \in {"resolve_fail", "dial_fail"}
    THEN GetUDPMapping(servers, outs, natOuter, bindIP, srcPort, i + 1)
    ELSE IF UDPErrAfterDo(outs[i]) # Nil
    THEN GetUDPMapping(servers, outs, natOuter, bindIP, srcPort, i + 1)
    ELSE [err |-> Nil, mapping |-> Mapping(bindIP, srcPort, XorAddr(outs[i], natOuter)),
          tried |-> i]

\* The loop over c.tcpServers from server i on.
RECURSIVE GetTCPMapping(_, _, _, _, _, _)
GetTCPMapping(servers, outs, natOuter, bindIP, srcPort, i) ==
    IF i > Len(servers)
    THEN [err |-> "all TCP STUN servers failed", mapping |-> NoMapping, tried |-> i]
    ELSE IF outs[i] = "dial_fail"
    THEN GetTCPMapping(servers, outs, natOuter, bindIP, srcPort, i + 1)
    ELSE IF TCPErrAfterDo(outs[i]) # Nil
    THEN GetTCPMapping(servers, outs, natOuter, bindIP, srcPort, i + 1)
    ELSE [err |-> Nil, mapping |-> Mapping(bindIP, srcPort, XorAddr(outs[i], natOuter)),
          tried |-> i]

\* What a call does to its probe sockets, in program order: "open" (the dial
\* returned a connection), "defer" (a Close registered to run at the return of
\* the call) and "close". A socket is named by the index of its server.
SockEv(op, i) == [op |-> op, sock |-> i]

Reverse(seq) == [k \in 1..Len(seq) |-> seq[Len(seq) + 1 - k]]

\* (mutant) no Close in the loop body: the socket waits for the deferred Close.
ConnCloseSkipped(i) == <<>>

\* GetUDPMapping: `conn.Close()` after client.Do has returned, on every path.
ConnClose(i) == <<SockEv("close", i)>>

\* GetTCPMapping: `client.Close()` after client.Do has returned; pion's
\* Client.Close closes the connection the client was made of.
ClientClose(i) == <<SockEv("close", i)>>

\* The loop over c.udpServers from server i on: a failed resolve or dial leaves
\* no socket; otherwise DialUDP, `defer client.Close()`, client.Do, conn.Close(),
\* then `continue` or the return.
RECURSIVE UDPSockets(_, _)
UDPSockets(outs, i) ==
    IF i > Len(outs)
    THEN <<>>
    ELSE IF outs[i] \in {"resolve_fail", "dial_fail"}
    THEN UDPSockets(outs, i + 1)
    ELSE LET here == <<SockEv("open", i), SockEv("defer", i)>> \o ConnClose(i)
         IN IF UDPErrAfterDo(outs[i]) # Nil
            THEN here \o UDPSockets(outs, i + 1)
            ELSE here

\* The loop over c.tcpServers from server i on: a failed dial leaves no socket;
\* otherwise DialContext, client.Do, client.Close(), then `continue` or the return.
RECURSIVE TCPSockets(_, _)
TCPSockets(outs, i) ==
    IF i > Len(outs)
    THEN <<>>
    ELSE IF outs[i] = "dial_fail"
    THEN TCPSockets(outs, i + 1)
    ELSE LET here == <<SockEv("open", i)>> \o ClientClose(i)
         IN IF TCPErrAfterDo(outs[i]) # Nil
            THEN here \o TCPSockets(outs, i + 1)
            ELSE here

\* The return of the call: the deferred Closes run, last registered first.
RunDeferred(ev) ==
    LET defers == SelectSeq(ev, LAMBDA e : e.op = "defer")
    IN ev \o [k \in 1..Len(defers) |-> SockEv("close", Reverse(defers)[k].sock)]

(***************************************************************************)
(* SpecStun: one call of GetUDPMapping or GetTCPMapping on drawn inputs.   *)
(* stun.res is Nil until the call has returned.                            *)
(***************************************************************************)
StunPorts == {34567, 34568}

\* A server list of n entries; the entries are named by their position.
ServerList(n) == [i \in 1..n |-> i]

\* The result slot before the call has returned.
Pending == [err |-> "pending", mapping |-> NoMapping, tried |-> 0]

StunInit ==
    \E p \in {"tcp", "udp"}, n \in 0..MaxServers, natOuter \in NatOuters, port \in StunPorts :
        \E outs \in [1..n -> IF p = "udp" THEN UDPOutcomes ELSE TCPOutcomes] :
            stun = [proto |-> p, servers |-> ServerList(n), outs |-> outs,
                    nat |-> natOuter, bindIP |-> OutboundIP, srcPort |-> port,
                    res |-> Pending, sockets |-> <<>>]

StunIdle == stun = [proto |-> "none"]

CallGetUDPMapping ==
    /\ stun.proto = "udp"
    /\ stun.res = Pending
    /\ stun' = [stun EXCEPT !.res =
                  GetUDPMapping(stun.servers, stun.outs, stun.nat, stun.bindIP, stun.srcPort, 1),
                              !.sockets = RunDeferred(UDPSockets(stun.outs, 1))]

CallGetTCPMapping ==
    /\ stun.proto = "tcp"
    /\ stun.res = Pending
    /\ stun' = [stun EXCEPT !.res =
                  GetTCPMapping(stun.servers, stun.outs, stun.nat, stun.bindIP, stun.srcPort, 1),
                              !.sockets = RunDeferred(TCPSockets(stun.outs, 1))]

(***************************************************************************)
(* internal/orchestrator: endpoints and the control loop runWorker.        *)
(***************************************************************************)
\* n.tcpOpens and n.udpOpens, parsed by New from cfg.OpenPort. The two TCP
\* endpoints name one port: their inner strings are equal.
tcpOpens == << [ip |-> UnspecifiedIP, port |-> 34567], [ip |-> OutboundIP, port |-> 34567] >>
udpOpens == << [ip |-> "127.0.0.1", port |-> 34568] >>

\* One control loop per open endpoint: Run's two loops over tcpOpens and udpOpens.
Endpoints ==
    {[proto |-> "tcp", idx |-> i] : i \in 1..Len(tcpOpens)}
        \cup {[proto |-> "udp", idx |-> i] : i \in 1..Len(udpOpens)}

AddrOf(e) == IF e.proto = "tcp" THEN tcpOpens[e.idx] ELSE udpOpens[e.idx]

\* The empty string.
EmptyString == <<>>

\* formatInner: "0.0.0.0:port" becomes "<outbound IP>:port".
formatInner(addr, outboundIP) ==
    IF addr.ip = UnspecifiedIP THEN <<outboundIP, addr.port>> ELSE <<addr.ip, addr.port>>

\* fmt.Sprintf("%s:%d", res.ExternalIP, res.ExternalPort)
FormatOuter(m) == <<m.ExternalIP, m.ExternalPort>>

InnerOf(e) == formatInner(AddrOf(e), OutboundIP)

\* The NAT keys its mapping on the probe's local (protocol, port).
NatKey(e) == <<e.proto, AddrOf(e).port>>
NatKeys == {NatKey(e) : e \in Endpoints}

\* runWorker's call of the STUN client for its protocol.
Probe(e, outs) ==
    IF e.proto = "tcp"
    THEN GetTCPMapping(tcpServers, outs, nat[NatKey(e)], OutboundIP, AddrOf(e).port, 1)
    ELSE GetUDPMapping(udpServers, outs, nat[NatKey(e)], OutboundIP, AddrOf(e).port, 1)

\* (mutant) every successful probe is published.
ChangedAlways(o, last) == TRUE

\* `else if outer != lastOuter`: the loop publishes a successful probe's outer.
Changed(o, last) == o # last

\* A server is unreachable when its name does not resolve, the dial fails, the
\* request cannot be sent or no response arrives.
Unreachable == {"resolve_fail", "dial_fail", "start_err", "timeout"}

\* What the network can do with the servers of e's protocol during one probe.
ProbeOutcomes(e) ==
    LET all == IF e.proto = "tcp" THEN TCPOutcomes ELSE UDPOutcomes
        n == IF e.proto = "tcp" THEN Len(tcpServers) ELSE Len(udpServers)
    IN [1..n -> IF e.proto \in down THEN all \cap Unreachable ELSE all]

\* The outers that STUN responses carried, consecutive repeats dropped.
Observe(h, o) == IF h # <<>> /\ h[Len(h)] = o THEN h ELSE Append(h, o)

\* The formatted outer address the NAT currently maps e's port to.
NatOuter(e) == <<nat[NatKey(e)].ip, nat[NatKey(e)].port>>

\* The call returned the address a STUN response carried.
Answered(e, res) == res.err = Nil /\ FormatOuter(res.mapping) = NatOuter(e)

\* One iteration of runWorker's loop up to the send: on entry, or when
\* `case <-time.After(n.interval):` fires, a fresh `var outer string`, the probe
\* and the decision.
WorkerProbe(e) ==
    /\ wpc[e] \in {"probe", "sleep"}
    /\ probes < MaxProbes
    /\ \E res \in {Probe(e, outs) : outs \in ProbeOutcomes(e)} :
         LET o == IF res.err = Nil THEN FormatOuter(res.mapping) ELSE EmptyString
         IN /\ outer' = [outer EXCEPT ![e] = o]
            /\ wpc' = [wpc EXCEPT ![e] =
                         IF res.err # Nil THEN "sleep"
                         ELSE IF Changed(o, lastOuter[e]) THEN "send" ELSE "sleep"]
            /\ resp' = [resp EXCEPT ![e] =
                          IF Answered(e, res) THEN Observe(resp[e], NatOuter(e)) ELSE resp[e]]
    /\ probes' = probes + 1
    /\ UNCHANGED <<extVars, stun, kaVars, portVars, ctxDone, down, nat, lastOuter, Updates, smPc, mappings, file,
                   fileWrites, hooks, enq, lastEnq>>

\* `n.statusMgr.Updates <- status.UpdateEvent{...}; lastOuter = outer`: the send
\* blocks while the channel is full.
WorkerSend(e) ==
    /\ wpc[e] = "send"
    /\ Len(Updates) < UpdatesCap
    /\ Updates' = Append(Updates, [Protocol |-> e.proto, InnerAddr |-> InnerOf(e),
                                   OuterAddr |-> outer[e]])
    /\ lastOuter' = [lastOuter EXCEPT ![e] = outer[e]]
    /\ enq' = [enq EXCEPT ![e] = enq[e] + 1]
    /\ lastEnq' = [lastEnq EXCEPT ![e.proto] =
                      [i \in DOMAIN lastEnq[e.proto] \cup {InnerOf(e)} |->
                          IF i = InnerOf(e) THEN outer[e] ELSE lastEnq[e.proto][i]]]
    /\ wpc' = [wpc EXCEPT ![e] = "sleep"]
    /\ UNCHANGED <<extVars, stun, kaVars, portVars, ctxDone, down, nat, outer, probes, smPc, mappings, file,
                   fileWrites, hooks, resp>>

\* `case <-ctx.Done(): return`
WorkerReturn(e) ==
    /\ wpc[e] = "sleep"
    /\ ctxDone
    /\ wpc' = [wpc EXCEPT ![e] = "done"]
    /\ UNCHANGED <<extVars, stun, kaVars, portVars, ctxDone, down, nat, lastOuter, outer, probes, Updates, smPc,
                   mappings, file, fileWrites, hooks, enq, resp, lastEnq>>

(***************************************************************************)
(* internal/status: the status manager.                                    *)
(***************************************************************************)
\* cfg.StatusReport.Hook of the README's example: "echo mapped from {inner} to {outer}".
hookCmd == "echo mapped from {inner} to {outer}"

\* expandHook: the template with {inner} and {outer} replaced.
expandHook(ev) == [cmd |-> "echo mapped from", inner |-> ev.InnerAddr, outer |-> ev.OuterAddr]

\* exec.CommandContext(...).Start(): one more spawn of the command.
Spawn(h, cmd) ==
    [c \in DOMAIN h \cup {cmd} |-> IF c = cmd THEN (IF c \in DOMAIN h THEN h[c] + 1 ELSE 1)
                                   ELSE h[c]]

\* (mutant) no deduplication.
UnchangedNever(table, ev) == FALSE

\* `old, exists := protocolMap[ev.InnerAddr]; if exists && old == ev.OuterAddr`
Unchanged(table, ev) ==
    /\ ev.InnerAddr \in DOMAIN table[ev.Protocol]
    /\ table[ev.Protocol][ev.InnerAddr] = ev.OuterAddr

\* `protocolMap[ev.InnerAddr] = ev.OuterAddr`
SetMapping(table, ev) ==
    [table EXCEPT ![ev.Protocol] =
        [i \in DOMAIN table[ev.Protocol] \cup {ev.InnerAddr} |->
            IF i = ev.InnerAddr THEN ev.OuterAddr ELSE table[ev.Protocol][i]]]

\* The sequences that list every element of S once: the orders a range over a Go map can take.
RECURSIVE Orderings(_)
Orderings(S) ==
    IF S = {} THEN {<<>>}
    ELSE UNION {{<<x>> \o t : t \in Orderings(S \ {x})} : x \in S}

\* (mutant) the record's two fields are swapped.
RecordsSwapped(m) == {[inner |-> m[i], outer |-> i] : i \in DOMAIN m}

\* `rec := map[string]string{"inner": inner, "outer": outer}` for each entry of amap.
Records(m) == {[inner |-> i, outer |-> m[i]] : i \in DOMAIN m}

\* writeFile's tmp: per protocol the records of the table, in map iteration order.
Documents(table) ==
    {[state |-> "doc", tcp |-> t, udp |-> u] :
        t \in Orderings(Records(table["tcp"])), u \in Orderings(Records(table["udp"]))}

EmptyFile == [state |-> "empty"]

\* writeFile: Seek(0, 0), Truncate(0), Encode(tmp).
writeFile(table) == Documents(table)

\* handleEvent, under m.mutex.
handleEvent(ev) ==
    IF Unchanged(mappings, ev)
    THEN UNCHANGED <<mappings, file, fileWrites, hooks>>
    ELSE /\ mappings' = SetMapping(mappings, ev)
         /\ file' \in writeFile(mappings')
         /\ fileWrites' = fileWrites + 1
         /\ hooks' = IF hookCmd # "" THEN Spawn(hooks, expandHook(ev)) ELSE hooks

\* (mutant) the receive takes the newest event of the channel.
ReceiveNewest(q) == [ev |-> q[Len(q)], rest |-> SubSeq(q, 1, Len(q) - 1)]

\* `<-m.Updates`: a receive takes the oldest element of the channel's buffer.
Receive(q) == [ev |-> Head(q), rest |-> Tail(q)]

\* StatusManager.Run, `case ev := <-m.Updates: m.handleEvent(ev)`
SMHandle ==
    /\ smPc = "run"
    /\ Updates # <<>>
    /\ handleEvent(Receive(Updates).ev)
    /\ Updates' = Receive(Updates).rest
    /\ UNCHANGED <<extVars, stun, kaVars, portVars, ctxDone, down, nat, wpc, lastOuter, outer, probes, smPc, enq,
                   resp, lastEnq>>

\* StatusManager.Run, `case <-ctx.Done(): m.file.Close(); return`
SMExit ==
    /\ smPc = "run"
    /\ ctxDone
    /\ smPc' = "exited"
    /\ UNCHANGED <<extVars, stun, kaVars, portVars, ctxDone, down, nat, wpc, lastOuter, outer, probes, Updates,
                   mappings, file, fileWrites, hooks, enq, resp, lastEnq>>

(***************************************************************************)
(* Environment: the NAT changes a mapping; the root context is cancelled.  *)
(***************************************************************************)
\* The NAT remaps a port. A remap shows only in a later probe, so none is taken
\* once the loops have used up their probes.
Drift ==
    /\ probes < MaxProbes
    /\ \E k \in NatKeys :
         \E o \in NatOuters \ {nat[k]} : nat' = [nat EXCEPT ![k] = o]
    /\ UNCHANGED <<extVars, stun, kaVars, portVars, ctxDone, down, wpc, lastOuter, outer, probes, Updates, smPc, mappings,
                   file, fileWrites, hooks, enq, resp, lastEnq>>

Cancel ==
    /\ ~ctxDone
    /\ ctxDone' = TRUE
    /\ UNCHANGED <<extVars, stun, kaVars, portVars, down, nat, wpc, lastOuter, outer, probes, Updates, smPc,
                   mappings, file, fileWrites, hooks, enq, resp, lastEnq>>

\* New, then Run up to `<-ctx.Done()`: the status manager and every control loop
\* are started; NewManager opened the status file with O_TRUNC.
OrchInit ==
    /\ ctxDone = FALSE
    /\ down \in {{}, {"udp"}}
    /\ nat = [k \in NatKeys |-> OuterA]
    /\ wpc = [e \in Endpoints |-> "probe"]
    /\ lastOuter = [e \in Endpoints |-> EmptyString]
    /\ outer = [e \in Endpoints |-> EmptyString]
    /\ probes = 0
    /\ Updates = <<>>
    /\ smPc = "run"
    /\ mappings = [p \in {"tcp", "udp"} |-> <<>>]
    /\ file = EmptyFile
    /\ fileWrites = 0
    /\ hooks = <<>>
    /\ enq = [e \in Endpoints |-> 0]
    /\ resp = [e \in Endpoints |-> <<>>]
    /\ lastEnq = [p \in {"tcp", "udp"} |-> <<>>]

OrchIdle ==
    /\ ctxDone = FALSE /\ down = {} /\ nat = <<>> /\ wpc = <<>>
    /\ lastOuter = <<>> /\ outer = <<>> /\ probes = 0 /\ Updates = <<>> /\ smPc = "off"
    /\ mappings = <<>> /\ file = EmptyFile /\ fileWrites = 0 /\ hooks = <<>> /\ enq = <<>>
    /\ resp = <<>> /\ lastEnq = <<>>

(***************************************************************************)
(* internal/keepalive: TCPKeepAlive(ctx, laddr, host, interval, logger).   *)
(***************************************************************************)
\* minInterval: 5 seconds for an interval of zero or less.
minInterval(d) == IF d <= 0 THEN 5 ELSE d

\* 60*time.Second, the ceiling of the backoff.
BackoffCeiling == 60

Min(a, b) == IF a < b THEN a ELSE b

\* (mutant) the backoff doubles without a ceiling.
NextBackoffUncapped(b) == b * 2

\* `backoff = time.Duration(math.Min(float64(backoff*2), float64(60*time.Second)))`
NextBackoff(b) == Min(b * 2, BackoffCeiling)

\* Run's laddr for the README's TCP endpoint: &net.TCPAddr{IP: n.bindIP, Port: addr.Port}.
kaLaddr == [ip |-> OutboundIP, port |-> 34567]

\* The intervals Run may pass: time.Duration(cfg.Interval) * time.Second.
KAIntervals == {-1, 0, 1, 5, 10, 20, 31, 60, 61, 90}

KAInit ==
    /\ kaPc = "top"
    /\ kaInterval \in {minInterval(d) : d \in KAIntervals}
    /\ kaBackoff = kaInterval
    /\ kaConn = Nil
    /\ kaDials = 0
    /\ kaWaits = <<>>
    /\ kaWaited = FALSE
    /\ kaDialed = {}
    /\ kaOpen = 0
    /\ ukPc = "resolve"

KAIdle ==
    /\ kaPc = "off" /\ kaInterval = 0 /\ kaBackoff = 0 /\ kaConn = Nil /\ kaDials = 0
    /\ kaWaits = <<>> /\ kaWaited = FALSE /\ kaDialed = {} /\ kaOpen = 0 /\ ukPc = "off"

\* `if conn == nil { dialer := net.Dialer{LocalAddr: laddr, ...}; c, err := dialer.DialContext(ctx, ...)`
\* The dial fails when the context is cancelled.
\* (mutant) the deferred function leaves the connection as it is.
deferredCloseSkipped(conn) == conn

\* `defer func() { if conn != nil { conn.Close() } }()`
deferredClose(conn) == IF conn # Nil THEN "closed" ELSE conn

\* (mutant) conn is set to nil without conn.Close().
connCloseSkipped(n) == n

\* `conn.Close()`: one open connection less.
connClose(n) == n - 1

KADialFail ==
    /\ kaPc = "top" /\ kaConn = Nil
    /\ kaDials < MaxDials \/ ctxDone
    /\ kaDials' = kaDials + 1
    /\ kaDialed' = kaDialed \cup {kaLaddr}
    /\ kaWaited' = FALSE
    /\ kaWaits' = Append(kaWaits, kaBackoff)
    /\ kaPc' = "backoff"
    /\ UNCHANGED <<extVars, stunVars, orchVars, portVars, ukPc, kaInterval, kaBackoff, kaConn, kaOpen>>

\* The dial succeeds: `conn = c.(*net.TCPConn); backoff = interval`.
KADialOk ==
    /\ kaPc = "top" /\ kaConn = Nil
    /\ kaDials < MaxDials
    /\ ~ctxDone
    /\ kaDials' = kaDials + 1
    /\ kaDialed' = kaDialed \cup {kaLaddr}
    /\ kaWaited' = FALSE
    /\ kaConn' = "open"
    /\ kaBackoff' = kaInterval
    /\ kaWaits' = <<>>
    /\ kaOpen' = kaOpen + 1
    /\ UNCHANGED <<extVars, stunVars, orchVars, portVars, ukPc, kaPc, kaInterval>>

\* After a failed dial, `case <-time.After(backoff):` then the backoff doubles and
\* `continue`. The timer is created when the select is entered and lasts a second
\* or more, so a select entered after the cancellation finds only ctx.Done()
\* ready; a timer that fires during a wait entered before it is the same run as
\* one where the timer fires first.
KABackoffTimer ==
    /\ kaPc = "backoff"
    /\ ~ctxDone
    /\ kaBackoff' = NextBackoff(kaBackoff)
    /\ kaWaited' = TRUE
    /\ kaPc' = "top"
    /\ UNCHANGED <<extVars, stunVars, orchVars, portVars, ukPc, kaInterval, kaConn, kaDials, kaWaits, kaDialed, kaOpen>>

\* After a failed dial, `case <-ctx.Done(): return`; the deferred function runs.
KABackoffReturn ==
    /\ kaPc = "backoff"
    /\ ctxDone
    /\ kaConn' = deferredClose(kaConn)
    /\ kaPc' = "done"
    /\ kaOpen' = IF deferredClose(kaConn) # kaConn THEN connClose(kaOpen) ELSE kaOpen
    /\ UNCHANGED <<extVars, stunVars, orchVars, portVars, ukPc, kaInterval, kaBackoff, kaDials, kaWaits,
                   kaWaited, kaDialed>>

\* `io.WriteString(conn, req)` succeeds; the read deadline is set.
KAWriteOk ==
    /\ kaPc = "top" /\ kaConn # Nil
    /\ kaPc' = "read"
    /\ UNCHANGED <<extVars, stunVars, orchVars, portVars, ukPc, kaInterval, kaBackoff, kaConn, kaDials, kaWaits,
                   kaWaited, kaDialed, kaOpen>>

\* The write fails: `conn.Close(); conn = nil; continue`.
KAWriteErr ==
    /\ kaPc = "top" /\ kaConn # Nil
    /\ kaConn' = Nil
    /\ kaOpen' = connClose(kaOpen)
    /\ UNCHANGED <<extVars, stunVars, orchVars, portVars, ukPc, kaPc, kaInterval, kaBackoff, kaDials, kaWaits,
                   kaWaited, kaDialed>>

\* (mutant) after the drain the loop starts its next iteration at once.
KAReadTimeoutNoWait ==
    /\ kaPc = "read"
    /\ kaPc' = "top"
    /\ UNCHANGED <<extVars, stunVars, orchVars, portVars, ukPc, kaInterval, kaBackoff, kaConn, kaDials, kaWaits,
                   kaWaited, kaDialed, kaOpen>>

\* The drain loop ends with a read timeout: `break`, the connection is kept.
KAReadTimeout ==
    /\ kaPc = "read"
    /\ kaPc' = "wait"
    /\ UNCHANGED <<extVars, stunVars, orchVars, portVars, ukPc, kaInterval, kaBackoff, kaConn, kaDials, kaWaits,
                   kaWaited, kaDialed, kaOpen>>

\* The drain loop ends with another read error: `conn.Close(); conn = nil; break`.
KAReadErr ==
    /\ kaPc = "read"
    /\ kaConn' = Nil
    /\ kaPc' = "wait"
    /\ kaOpen' = connClose(kaOpen)
    /\ UNCHANGED <<extVars, stunVars, orchVars, portVars, ukPc, kaInterval, kaBackoff, kaDials, kaWaits, kaWaited,
                   kaDialed>>

\* At the end of the iteration, `case <-time.After(interval):`.
KAWaitTimer ==
    /\ kaPc = "wait"
    /\ ~ctxDone
    /\ kaWaited' = TRUE
    /\ kaPc' = "top"
    /\ UNCHANGED <<extVars, stunVars, orchVars, portVars, ukPc, kaInterval, kaBackoff, kaConn, kaDials, kaWaits,
                   kaDialed, kaOpen>>

\* At the end of the iteration, `case <-ctx.Done(): return`; the deferred
\* function closes conn when it is not nil.
KAWaitReturn ==
    /\ kaPc = "wait"
    /\ ctxDone
    /\ kaConn' = deferredClose(kaConn)
    /\ kaPc' = "done"
    /\ kaOpen' = IF deferredClose(kaConn) # kaConn THEN connClose(kaOpen) ELSE kaOpen
    /\ UNCHANGED <<extVars, stunVars, orchVars, portVars, ukPc, kaInterval, kaBackoff, kaDials, kaWaits, kaWaited,
                   kaDialed>>

\* The root context is cancelled while the keep-alive loop runs.
KACancel ==
    /\ ~ctxDone
    /\ ctxDone' = TRUE
    /\ UNCHANGED <<extVars, stunVars, kaVars, portVars, down, nat, wpc, lastOuter, outer, probes, Updates, smPc,
                   mappings, file, fileWrites, hooks, enq, resp, lastEnq>>

\* UDPKeepAlive: `raddr := resolve()` returns nil (the host name does not resolve).
UKResolveFail ==
    /\ ukPc = "resolve"
    /\ ukPc' = "retry"
    /\ UNCHANGED <<extVars, stunVars, orchVars, portVars, kaPc, kaInterval, kaBackoff, kaConn, kaDials,
                   kaWaits, kaWaited, kaDialed, kaOpen>>

\* The host resolves (or is an IP literal); the DNS-shaped packet is written with
\* conn.WriteTo, whose error is only logged.
UKSend ==
    /\ ukPc = "resolve"
    /\ ukPc' = "wait"
    /\ UNCHANGED <<extVars, stunVars, orchVars, portVars, kaPc, kaInterval, kaBackoff, kaConn, kaDials,
                   kaWaits, kaWaited, kaDialed, kaOpen>>

\* `case <-ticker.C:` in either select: the next iteration. A tick may be
\* buffered in the ticker's channel when the select is entered.
UKTick ==
    /\ ukPc \in {"retry", "wait"}
    /\ ukPc' = "resolve"
    /\ UNCHANGED <<extVars, stunVars, orchVars, portVars, kaPc, kaInterval, kaBackoff, kaConn, kaDials,
                   kaWaits, kaWaited, kaDialed, kaOpen>>

\* `case <-ctx.Done(): return` in the select after a failed resolve.
UKRetryReturn ==
    /\ ukPc = "retry"
    /\ ctxDone
    /\ ukPc' = "done"
    /\ UNCHANGED <<extVars, stunVars, orchVars, portVars, kaPc, kaInterval, kaBackoff, kaConn, kaDials,
                   kaWaits, kaWaited, kaDialed, kaOpen>>

\* `case <-ctx.Done(): return` in the select at the end of the iteration.
UKWaitReturn ==
    /\ ukPc = "wait"
    /\ ctxDone
    /\ ukPc' = "done"
    /\ UNCHANGED <<extVars, stunVars, orchVars, portVars, kaPc, kaInterval, kaBackoff, kaConn, kaDials,
                   kaWaits, kaWaited, kaDialed, kaOpen>>

\* The steps of the TCP loop and of the UDP loop.
KAStep ==
    \/ KADialFail \/ KADialOk \/ KABackoffTimer \/ KABackoffReturn \/ KAWriteOk
    \/ KAWriteErr \/ KAReadTimeout \/ KAReadErr \/ KAWaitTimer \/ KAWaitReturn

UKStep == UKResolveFail \/ UKSend \/ UKTick \/ UKRetryReturn \/ UKWaitReturn

KANext ==
    \/ UKResolveFail
    \/ UKSend
    \/ UKTick
    \/ UKRetryReturn
    \/ UKWaitReturn
    \/ KADialFail
    \/ KADialOk
    \/ KABackoffTimer
    \/ KABackoffReturn
    \/ KAWriteOk
    \/ KAWriteErr
    \/ KAReadTimeout
    \/ KAReadErr
    \/ KAWaitTimer
    \/ KAWaitReturn
    \/ KACancel

InitKA == StunIdle /\ OrchIdle /\ KAInit /\ PortIdle /\ ExtIdle

SpecKA == InitKA /\ [][KANext]_vars

\* Each goroutine keeps running; a select with several ready cases picks one at
\* random, so the ctx.Done() case is not passed over forever.
SpecKALive ==
    /\ SpecKA
    /\ WF_vars(KAStep)
    /\ WF_vars(UKStep)
    /\ SF_vars(UKRetryReturn)
    /\ SF_vars(UKWaitReturn)

(***************************************************************************)
(* The sockets on the monitored local ports (unix build): who binds what,  *)
(* with which options.                                                     *)
(***************************************************************************)
\* The open_port entries drawn for the TCP and the UDP endpoint.
PortIPs == {UnspecifiedIP, OutboundIP, "127.0.0.1"}
TCPPort == 34567
UDPPort == 34568

\* internal/forward listenWithReuse: SO_REUSEADDR and SO_REUSEPORT, listening.
ListenerSocket(addr) ==
    [owner |-> "forwarder", proto |-> "tcp", ip |-> addr.ip, port |-> addr.port,
     reuseaddr |-> TRUE, reuseport |-> TRUE, listening |-> TRUE]

\* (mutant) the dialer is given no local address: the kernel picks the port.
StunTCPSocketUnbound(laddr) ==
    [owner |-> "stun", proto |-> "tcp", ip |-> UnspecifiedIP, port |-> 0,
     reuseaddr |-> TRUE, reuseport |-> TRUE, listening |-> FALSE]

\* internal/stun newBoundDialer: LocalAddr laddr, SO_REUSEADDR and SO_REUSEPORT.
StunTCPSocket(laddr) ==
    [owner |-> "stun", proto |-> "tcp", ip |-> laddr.ip, port |-> laddr.port,
     reuseaddr |-> TRUE, reuseport |-> TRUE, listening |-> FALSE]

\* TCPKeepAlive: `net.Dialer{LocalAddr: laddr, Timeout: 3 * time.Second}`, no Control function.
KeepAliveTCPSocket(laddr) ==
    [owner |-> "keepalive", proto |-> "tcp", ip |-> laddr.ip, port |-> laddr.port,
     reuseaddr |-> FALSE, reuseport |-> FALSE, listening |-> FALSE]

\* Run: `net.ListenPacket("udp", addr.String())`, the keep-alive packet socket.
KeepAliveUDPSocket(addr) ==
    [owner |-> "keepalive", proto |-> "udp", ip |-> addr.ip, port |-> addr.port,
     reuseaddr |-> FALSE, reuseport |-> FALSE, listening |-> FALSE]

\* GetUDPMapping: `net.DialUDP("udp4", laddr, raddr)`.
StunUDPSocket(laddr) ==
    [owner |-> "stun", proto |-> "udp", ip |-> laddr.ip, port |-> laddr.port,
     reuseaddr |-> FALSE, reuseport |-> FALSE, listening |-> FALSE]

\* The kernel's bind check: two sockets of one protocol and port whose addresses
\* overlap conflict unless both set SO_REUSEPORT, or both set SO_REUSEADDR and the
\* holder is not listening.
Overlap(ip1, ip2) == ip1 = ip2 \/ ip1 = UnspecifiedIP \/ ip2 = UnspecifiedIP

Conflicts(new, held) ==
    /\ new.proto = held.proto /\ new.port = held.port
    /\ Overlap(new.ip, held.ip)
    /\ ~(new.reuseport /\ held.reuseport)
    /\ ~(new.reuseaddr /\ held.reuseaddr /\ ~held.listening)

Holders(new) == {h \in socks : Conflicts(new, h)}

\* bind(2) of a new socket: EADDRINUSE when a socket of the process holds the
\* address; otherwise it succeeds, or fails for a reason outside the process.
Bind(new, ok) ==
    IF Holders(new) # {}
    THEN /\ ok = FALSE
         /\ bindFails' = bindFails \cup
                {[proto |-> new.proto, who |-> new.owner, by |-> h.owner] : h \in Holders(new)}
         /\ socks' = socks
    ELSE /\ bindFails' = bindFails
         /\ socks' = IF ok THEN socks \cup {new} ELSE socks

\* (mutant) the bind IP stays unspecified.
bindIPUnspecified == UnspecifiedIP

\* Run: n.bindIP is nil after New, so it becomes getOutboundIP().
bindIP == OutboundIP

\* The number of forward_port.tcp targets: none, one (as many as open_port.tcp has
\* entries, the paired mode) or two.
ForwardCounts == {0, 1, 2}

\* The ports of the forward targets when there are two of them.
TargetPorts == <<8080, 8081>>

\* New, n.tcpFwds as listen addresses: the open endpoint's address when
\* len(open_port.tcp) == len(forward_port.tcp), else "0.0.0.0:" + portOf(target)
\* for every target.
ListenAddrs ==
    IF portCfg.forward = 1
    THEN <<portCfg.tcp>>
    ELSE [i \in 1..portCfg.forward |-> [ip |-> UnspecifiedIP, port |-> TargetPorts[i]]]

\* The acceptLoop goroutine of the i-th forwarder.
AcceptLoop(i) == IF i = 1 THEN "acceptLoop" ELSE "acceptLoop2"

PortInit ==
    /\ portCfg \in [tcp : {[ip |-> i, port |-> TCPPort] : i \in PortIPs},
                    udp : {[ip |-> i, port |-> UDPPort] : i \in PortIPs},
                    forward : ForwardCounts]
    /\ runPc = "forwarders"
    /\ tasks = {}
    /\ socks = {}
    /\ bindFails = {}

\* (mutant) a failed Start ends the loop over n.tcpFwds.
AfterStartAbort(i, ok) == IF ok /\ i < Len(ListenAddrs) THEN "forwarders2" ELSE "tcp"

\* `for _, fw := range n.tcpFwds`: a failed Start is logged (n.logger.Warn) and
\* the loop goes on with the next forwarder, then with the open endpoints.
AfterStart(i, ok) == IF i < Len(ListenAddrs) THEN "forwarders2" ELSE "tcp"

\* Run, `go n.statusMgr.Run(ctx)` and the first turn of "Start forwarders":
\* TCPForwarder.Start listens on the forwarder's ListenAddr, and starts its
\* acceptLoop when the listen succeeded.
RunStartForwarders ==
    /\ runPc = "forwarders"
    /\ IF Len(ListenAddrs) > 0
       THEN \E ok \in BOOLEAN :
              /\ Bind(ListenerSocket(ListenAddrs[1]), ok)
              /\ tasks' = IF ok THEN {"statusMgr", AcceptLoop(1)} ELSE {"statusMgr"}
              /\ runPc' = AfterStart(1, ok)
       ELSE /\ tasks' = {"statusMgr"}
            /\ runPc' = "tcp"
            /\ UNCHANGED <<socks, bindFails>>
    /\ UNCHANGED <<extVars, stunVars, orchVars, kaVars, portCfg>>

\* Run, the second turn of `for _, fw := range n.tcpFwds`.
RunStartNextForwarder ==
    /\ runPc = "forwarders2"
    /\ \E ok \in BOOLEAN :
         /\ Bind(ListenerSocket(ListenAddrs[2]), ok)
         /\ tasks' = IF ok THEN tasks \cup {AcceptLoop(2)} ELSE tasks
         /\ runPc' = AfterStart(2, ok)
    /\ UNCHANGED <<extVars, stunVars, orchVars, kaVars, portCfg>>

\* Run, the loop over n.tcpOpens: `go keepalive.TCPKeepAlive(...); go n.runWorker(...)`.
RunOpenTCP ==
    /\ runPc = "tcp"
    /\ runPc' = "udp"
    /\ tasks' = tasks \cup {"keepaliveTCP", "workerTCP"}
    /\ UNCHANGED <<extVars, stunVars, orchVars, kaVars, portCfg, socks, bindFails>>

\* Run, the loop over n.udpOpens: ListenPacket, then `go keepalive.UDPKeepAlive`
\* when it succeeded, and `go n.runWorker` in either case.
RunOpenUDP ==
    /\ runPc = "udp"
    /\ \E ok \in BOOLEAN :
         /\ Bind(KeepAliveUDPSocket(portCfg.udp), ok)
         /\ tasks' = tasks \cup (IF ok THEN {"keepaliveUDP", "workerUDP"} ELSE {"workerUDP"})
    /\ runPc' = "started"
    /\ UNCHANGED <<extVars, stunVars, orchVars, kaVars, portCfg>>

\* Run: `<-ctx.Done()`, a log line, and the return. Run waits for no goroutine
\* and closes no socket.
RunReturn ==
    /\ runPc = "started"
    /\ ctxDone
    /\ runPc' = "returned"
    /\ UNCHANGED <<extVars, stunVars, orchVars, kaVars, portCfg, tasks, socks, bindFails>>

TCPStarted == "workerTCP" \in tasks
UDPStarted == "workerUDP" \in tasks

Holds(owner, proto) == \E h \in socks : h.owner = owner /\ h.proto = proto

\* TCPKeepAlive, `dialer.DialContext(ctx, "tcp", hostPort)` with conn == nil.
PortKeepAliveDial ==
    /\ "keepaliveTCP" \in tasks
    /\ ~ctxDone
    /\ ~Holds("keepalive", "tcp")
    /\ \E ok \in BOOLEAN : Bind(KeepAliveTCPSocket([ip |-> bindIP, port |-> portCfg.tcp.port]), ok)
    /\ UNCHANGED <<extVars, stunVars, orchVars, kaVars, portCfg, runPc, tasks>>

\* GetTCPMapping, `d.DialContext(context.Background(), "tcp4", addr)` for one server.
PortProbeTCP ==
    /\ TCPStarted
    /\ ~Holds("stun", "tcp")
    /\ \E ok \in BOOLEAN : Bind(StunTCPSocket([ip |-> bindIP, port |-> portCfg.tcp.port]), ok)
    /\ UNCHANGED <<extVars, stunVars, orchVars, kaVars, portCfg, runPc, tasks>>

\* GetUDPMapping, `net.DialUDP("udp4", laddr, raddr)` for one server.
PortProbeUDP ==
    /\ UDPStarted
    /\ ~Holds("stun", "udp")
    /\ \E ok \in BOOLEAN : Bind(StunUDPSocket([ip |-> bindIP, port |-> portCfg.udp.port]), ok)
    /\ UNCHANGED <<extVars, stunVars, orchVars, kaVars, portCfg, runPc, tasks>>

\* A probe socket or the keep-alive connection is closed: client.Close() and
\* conn.Close() in the STUN client, conn.Close() in TCPKeepAlive.
PortClose ==
    /\ \E h \in socks :
         /\ h.owner = "stun" \/ (h.owner = "keepalive" /\ h.proto = "tcp")
         /\ socks' = socks \ {h}
    /\ UNCHANGED <<extVars, stunVars, orchVars, kaVars, portCfg, runPc, tasks, bindFails>>

\* The goroutines that return once they find ctx.Done() ready: the status
\* manager, the keep-alive loops and the control loops (between two probes).
\* A forwarder's acceptLoop blocked in Accept does not.
CtxTasks == {"statusMgr", "keepaliveTCP", "keepaliveUDP", "workerTCP", "workerUDP"}

\* The sockets a goroutine closes when it returns: TCPKeepAlive's deferred
\* conn.Close(). UDPKeepAlive leaves the packet socket it was given open.
ClosedOnExit(t) ==
    IF t = "keepaliveTCP"
    THEN {h \in socks : h.owner = "keepalive" /\ h.proto = "tcp"}
    ELSE {}

\* A goroutine takes its `case <-ctx.Done(): return`.
TaskExit(t) ==
    /\ ctxDone
    /\ t \in tasks \cap CtxTasks
    /\ t = "workerTCP" => ~Holds("stun", "tcp")
    /\ t = "workerUDP" => ~Holds("stun", "udp")
    /\ tasks' = tasks \ {t}
    /\ socks' = socks \ ClosedOnExit(t)
    /\ UNCHANGED <<extVars, stunVars, orchVars, kaVars, portCfg, runPc, bindFails>>

PortNext ==
    \/ RunStartForwarders
    \/ RunStartNextForwarder
    \/ RunOpenTCP
    \/ RunOpenUDP
    \/ RunReturn
    \/ PortKeepAliveDial
    \/ PortProbeTCP
    \/ PortProbeUDP
    \/ PortClose
    \/ \E t \in CtxTasks : TaskExit(t)
    \/ Cancel

InitPort == StunIdle /\ OrchIdle /\ KAIdle /\ PortInit /\ ExtIdle

SpecPort == InitPort /\ [][PortNext]_vars

(***************************************************************************)
(* internal/forward: the TCP forwarder, one started forwarder.             *)
(***************************************************************************)
\* The state common to the components that are not running in a forwarder's
\* specification.
tfOutside == <<stunVars, kaVars, portVars, ufVars, sfVars, lateVars, down, nat, wpc, lastOuter, outer, probes, Updates, smPc,
               mappings, file, fileWrites, hooks, enq, resp, lastEnq>>

\* What a step that leaves the WaitGroup alone does not touch.
baseVars == <<tfOutside, tfWg>>

\* A connection Accept has just returned, and its handler `go func(src net.Conn)`.
\*   h: handleConnection's position, "dial", "splice" (in p.Wait()) or "done"
\*   src, dst: the forwarder's two sockets; client, target: the peers' ends
\*   up, down: io.Copy(dst, src) and io.Copy(src, dst): "off", "run" or "done"
\*   upData, downData: bytes a peer has sent that the copier has not read yet
NewConn ==
    [h |-> "dial", src |-> "open", dst |-> Nil, client |-> "open", target |-> Nil,
     up |-> "off", down |-> "off", upData |-> FALSE, downData |-> FALSE]

\* (mutant) the handler is started without f.wg.Add(1).
wgAddSkipped(n) == n

\* `f.wg.Add(1)`
wgAdd(n) == n + 1

\* `defer f.wg.Done()`
wgDone(n) == n - 1

\* Start succeeded: the listener is open and acceptLoop runs, after `f.wg.Add(1)`.
TFInit ==
    /\ tfListener = "open" /\ tfPc = "select" /\ tfBacklog = 0 /\ tfConns = <<>>
    /\ tfStop = "idle" /\ tfWg = 1

TFConnIds == 1..Len(tfConns)

\* (environment) a client completes a connection to the listening port.
ClientConnect ==
    /\ tfListener = "open"
    /\ Len(tfConns) + tfBacklog < MaxConns
    /\ tfBacklog' = tfBacklog + 1
    /\ UNCHANGED <<baseVars, ctxDone, tfListener, tfPc, tfConns, tfStop>>

\* acceptLoop: `select { case <-ctx.Done(): return; default: }`, with the deferred f.wg.Done().
TFSelect ==
    /\ tfPc = "select"
    /\ tfPc' = IF ctxDone THEN "done" ELSE "accept"
    /\ tfWg' = IF ctxDone THEN wgDone(tfWg) ELSE tfWg
    /\ UNCHANGED <<tfOutside, ctxDone, tfListener, tfBacklog, tfConns, tfStop>>

\* `clientConn, err := f.listener.Accept()` returns a connection; the handler is started.
TFAccept ==
    /\ tfPc = "accept"
    /\ tfListener = "open"
    /\ tfBacklog > 0
    /\ tfBacklog' = tfBacklog - 1
    /\ tfConns' = Append(tfConns, NewConn)
    /\ tfWg' = wgAdd(tfWg)
    /\ tfPc' = "select"
    /\ UNCHANGED <<tfOutside, ctxDone, tfListener, tfStop>>

\* Accept returns an error because the listener is closed: `return`.
TFAcceptErr ==
    /\ tfPc = "accept"
    /\ tfListener = "closed"
    /\ tfPc' = "done"
    /\ tfWg' = wgDone(tfWg)
    /\ UNCHANGED <<tfOutside, ctxDone, tfListener, tfBacklog, tfConns, tfStop>>

\* Accept returns an error for a pending connection while the listener is open
\* (EMFILE or ENFILE: no free descriptor; ENOBUFS, ENOMEM): the same
\* `if err != nil { ...; return }`, and the connection stays in the queue.
TFAcceptFails ==
    /\ tfPc = "accept"
    /\ tfListener = "open"
    /\ tfBacklog > 0
    /\ tfPc' = "done"
    /\ tfWg' = wgDone(tfWg)
    /\ UNCHANGED <<tfOutside, ctxDone, tfListener, tfBacklog, tfConns, tfStop>>

\* The steps acceptLoop can take.
TFAcceptLoopStep == TFSelect \/ TFAccept \/ TFAcceptErr \/ TFAcceptFails

\* handleConnection: `dst, err := net.Dial("tcp", f.TargetAddr)` succeeds; both copiers start.
THDialOk(i) ==
    /\ tfConns[i].h = "dial"
    /\ tfConns' = [tfConns EXCEPT ![i].h = "splice", ![i].dst = "open", ![i].target = "open",
                                  ![i].up = "run", ![i].down = "run"]
    /\ UNCHANGED <<baseVars, ctxDone, tfListener, tfPc, tfBacklog, tfStop>>

\* The dial fails: `return`, and the deferred src.Close() and f.wg.Done() run.
THDialFail(i) ==
    /\ tfConns[i].h = "dial"
    /\ tfConns' = [tfConns EXCEPT ![i].h = "done", ![i].src = "closed"]
    /\ tfWg' = wgDone(tfWg)
    /\ UNCHANGED <<tfOutside, ctxDone, tfListener, tfPc, tfBacklog, tfStop>>

\* `io.Copy(dst, src)`: a Read of src returns bytes, which are written to dst (the
\* write fails when the target has closed), or returns EOF after the client
\* closed; otherwise the Read blocks.
CopyUp(i) ==
    /\ tfConns[i].up = "run"
    /\ IF tfConns[i].upData
       THEN tfConns' = [tfConns EXCEPT ![i].upData = FALSE,
                           ![i].up = IF tfConns[i].target = "closed" THEN "done" ELSE "run"]
       ELSE /\ tfConns[i].client = "closed"
            /\ tfConns' = [tfConns EXCEPT ![i].up = "done"]
    /\ UNCHANGED <<baseVars, ctxDone, tfListener, tfPc, tfBacklog, tfStop>>

\* `io.Copy(src, dst)`, the other direction.
CopyDown(i) ==
    /\ tfConns[i].down = "run"
    /\ IF tfConns[i].downData
       THEN tfConns' = [tfConns EXCEPT ![i].downData = FALSE,
                           ![i].down = IF tfConns[i].client = "closed" THEN "done" ELSE "run"]
       ELSE /\ tfConns[i].target = "closed"
            /\ tfConns' = [tfConns EXCEPT ![i].down = "done"]
    /\ UNCHANGED <<baseVars, ctxDone, tfListener, tfPc, tfBacklog, tfStop>>

\* `p.Wait()` returns when both copiers have called p.Done(); the deferred
\* dst.Close(), src.Close() and f.wg.Done() run.
THEnd(i) ==
    /\ tfConns[i].h = "splice"
    /\ tfConns[i].up = "done" /\ tfConns[i].down = "done"
    /\ tfConns' = [tfConns EXCEPT ![i].h = "done", ![i].src = "closed", ![i].dst = "closed"]
    /\ tfWg' = wgDone(tfWg)
    /\ UNCHANGED <<tfOutside, ctxDone, tfListener, tfPc, tfBacklog, tfStop>>

\* The steps the handler of connection i and its copiers can take.
HandlerStep(i) == THDialOk(i) \/ THDialFail(i) \/ CopyUp(i) \/ CopyDown(i) \/ THEnd(i)

\* (environment) the client sends bytes, or closes its end.
ClientSends(i) ==
    /\ tfConns[i].client = "open" /\ tfConns[i].h # "done" /\ ~tfConns[i].upData
    /\ tfConns' = [tfConns EXCEPT ![i].upData = TRUE]
    /\ UNCHANGED <<baseVars, ctxDone, tfListener, tfPc, tfBacklog, tfStop>>

ClientCloses(i) ==
    /\ tfConns[i].client = "open"
    /\ tfConns' = [tfConns EXCEPT ![i].client = "closed"]
    /\ UNCHANGED <<baseVars, ctxDone, tfListener, tfPc, tfBacklog, tfStop>>

\* (environment) the target sends bytes, or closes its end.
TargetSends(i) ==
    /\ tfConns[i].target = "open" /\ tfConns[i].h # "done" /\ ~tfConns[i].downData
    /\ tfConns' = [tfConns EXCEPT ![i].downData = TRUE]
    /\ UNCHANGED <<baseVars, ctxDone, tfListener, tfPc, tfBacklog, tfStop>>

TargetCloses(i) ==
    /\ tfConns[i].target = "open"
    /\ tfConns' = [tfConns EXCEPT ![i].target = "closed"]
    /\ UNCHANGED <<baseVars, ctxDone, tfListener, tfPc, tfBacklog, tfStop>>

\* Stop: `f.listener.Close()`, then it enters f.wg.Wait().
TFStopCall ==
    /\ tfStop = "idle"
    /\ tfListener # Nil
    /\ tfListener' = "closed"
    /\ tfStop' = "wait"
    /\ UNCHANGED <<baseVars, ctxDone, tfPc, tfBacklog, tfConns>>

\* f.wg.Wait() returns: the counter is zero.
TFStopReturn ==
    /\ tfStop = "wait"
    /\ tfWg = 0
    /\ tfStop' = "returned"
    /\ UNCHANGED <<baseVars, ctxDone, tfListener, tfPc, tfBacklog, tfConns>>

TFNext ==
    \/ ClientConnect
    \/ TFSelect
    \/ TFAccept
    \/ TFAcceptErr
    \/ TFAcceptFails
    \/ \E i \in TFConnIds : THDialOk(i)
    \/ \E i \in TFConnIds : THDialFail(i)
    \/ \E i \in TFConnIds : CopyUp(i)
    \/ \E i \in TFConnIds : CopyDown(i)
    \/ \E i \in TFConnIds : THEnd(i)
    \/ \E i \in TFConnIds : ClientSends(i)
    \/ \E i \in TFConnIds : ClientCloses(i)
    \/ \E i \in TFConnIds : TargetSends(i)
    \/ \E i \in TFConnIds : TargetCloses(i)
    \/ TFStopCall
    \/ TFStopReturn
    \/ Cancel

InitTcpFwd == StunIdle /\ OrchIdle /\ KAIdle /\ PortIdle /\ TFInit /\ UFIdle /\ SFIdle /\ LateIdle

SpecTcpFwd == InitTcpFwd /\ [][TFNext]_vars

(***************************************************************************)
(* internal/forward: the UDP forwarder, one started forwarder.  The        *)
(* sections under f.clientsMu are one step each.                           *)
(***************************************************************************)
\* The state outside the UDP forwarder.
ufOutside == <<stunVars, kaVars, portVars, tfVars, sfVars, lateVars, down, nat, wpc, lastOuter, outer, probes,
               Updates, smPc, mappings, file, fileWrites, hooks, enq, resp, lastEnq>>

\* What a step that does not take f.clientsMu leaves alone.
ufBase == <<ufOutside, ufLockedIO>>

\* The client source addresses that send datagrams.
UFSources == {"198.51.100.7:40000", "198.51.100.8:40000"}

\* Start succeeded: f.conn is open and acceptLoop runs.
UFInit ==
    /\ ufConn = "open" /\ ufPc = "select" /\ ufCur = Nil /\ ufSrv = 0 /\ ufClients = NoClients
    /\ ufSocks = <<>> /\ ufIn = {} /\ ufStop = "idle" /\ ufLockedIO = {}

UFSockIds == 1..Len(ufSocks)

\* (mutant) the lookup never finds an entry.
HasClientNever(clients, key) == FALSE

\* `srvConn, ok := f.clients[key]`
HasClient(clients, key) == key \in DOMAIN clients

\* (mutant) the new sub-socket is stored under every key of the map.
PutClientAll(clients, key, id) == [k \in DOMAIN clients \cup {key} |-> id]

\* `f.clients[key] = srvConn`
PutClient(clients, key, id) ==
    [k \in DOMAIN clients \cup {key} |-> IF k = key THEN id ELSE clients[k]]

\* (mutant) the entry is left in the map.
RemoveClientSkipped(clients, key) == clients

\* `delete(f.clients, key)`
RemoveClient(clients, key) == [k \in DOMAIN clients \ {key} |-> clients[k]]

\* (environment) a datagram from client k arrives at the listening socket.
UFArrive(k) ==
    /\ ufConn = "open"
    /\ k \notin ufIn
    /\ ufIn' = ufIn \cup {k}
    /\ UNCHANGED <<ufBase, ctxDone, ufConn, ufPc, ufCur, ufSrv, ufClients, ufSocks, ufStop>>

\* acceptLoop: `select { case <-ctx.Done(): return; default: }`, with the deferred f.wg.Done().
UFSelect ==
    /\ ufPc = "select"
    /\ ufPc' = IF ctxDone THEN "done" ELSE "read"
    /\ UNCHANGED <<ufBase, ctxDone, ufConn, ufCur, ufSrv, ufClients, ufSocks, ufIn, ufStop>>

\* `n, clientAddr, err := f.conn.ReadFromUDP(buf)` returns a datagram.
UFRead ==
    /\ ufPc = "read"
    /\ ufConn = "open"
    /\ \E k \in ufIn :
         /\ ufIn' = ufIn \ {k}
         /\ ufCur' = k
    /\ ufPc' = "lookup"
    /\ UNCHANGED <<ufBase, ctxDone, ufConn, ufSrv, ufClients, ufSocks, ufStop>>

\* ReadFromUDP returns an error because f.conn is closed: `continue`.
UFReadErr ==
    /\ ufPc = "read"
    /\ ufConn = "closed"
    /\ ufPc' = "select"
    /\ UNCHANGED <<ufBase, ctxDone, ufConn, ufCur, ufSrv, ufClients, ufSocks, ufIn, ufStop>>

\* Under the lock: the map has an entry for the client.
UFLookupHit ==
    /\ ufPc = "lookup"
    /\ HasClient(ufClients, ufCur)
    /\ ufSrv' = ufClients[ufCur]
    /\ ufPc' = "write"
    /\ ufLockedIO' = {}
    /\ UNCHANGED <<ufOutside, ctxDone, ufConn, ufCur, ufClients, ufSocks, ufIn, ufStop>>

\* Under the lock: no entry, and resolving or dialing the target fails: `continue`.
UFDialFail ==
    /\ ufPc = "lookup"
    /\ ~HasClient(ufClients, ufCur)
    /\ ufPc' = "select"
    /\ ufLockedIO' \in {{"resolve"}, {"resolve", "dial"}}
    /\ UNCHANGED <<ufOutside, ctxDone, ufConn, ufCur, ufSrv, ufClients, ufSocks, ufIn, ufStop>>

\* Under the lock: no entry; the dial succeeds, the reverse pump is started and
\* the sub-socket is stored.
UFDialOk ==
    /\ ufPc = "lookup"
    /\ ~HasClient(ufClients, ufCur)
    /\ Len(ufSocks) < MaxSockets
    /\ ufSocks' = Append(ufSocks, [client |-> ufCur, state |-> "open", pump |-> "read"])
    /\ ufClients' = PutClient(ufClients, ufCur, Len(ufSocks) + 1)
    /\ ufSrv' = Len(ufSocks) + 1
    /\ ufPc' = "write"
    /\ ufLockedIO' = {"resolve", "dial"}
    /\ UNCHANGED <<ufOutside, ctxDone, ufConn, ufCur, ufIn, ufStop>>

\* `srvConn.Write(buf[:n])`, whose error is only logged; the next iteration.
UFWrite ==
    /\ ufPc = "write"
    /\ ufPc' = "select"
    /\ UNCHANGED <<ufBase, ctxDone, ufConn, ufCur, ufSrv, ufClients, ufSocks, ufIn, ufStop>>

\* The steps acceptLoop can take.
UFAcceptLoopStep ==
    UFSelect \/ UFRead \/ UFReadErr \/ UFLookupHit \/ UFDialFail \/ UFDialOk \/ UFWrite

\* handleServerResponse: the read deadline of Timeout expires with no reply: `break`.
\* (A reply is written back to the client and changes nothing here.)
UFPumpTimeout(id) ==
    /\ ufSocks[id].pump = "read"
    /\ ufSocks[id].state = "open"
    /\ ufSocks' = [ufSocks EXCEPT ![id].pump = "cleanup"]
    /\ UNCHANGED <<ufBase, ctxDone, ufConn, ufPc, ufCur, ufSrv, ufClients, ufIn, ufStop>>

\* The read fails because the sub-socket is closed: `break`.
UFPumpReadErr(id) ==
    /\ ufSocks[id].pump = "read"
    /\ ufSocks[id].state = "closed"
    /\ ufSocks' = [ufSocks EXCEPT ![id].pump = "cleanup"]
    /\ UNCHANGED <<ufBase, ctxDone, ufConn, ufPc, ufCur, ufSrv, ufClients, ufIn, ufStop>>

\* Under the lock: `srvConn.Close(); delete(f.clients, key)`; then the deferred f.wg.Done().
UFPumpCleanup(id) ==
    /\ ufSocks[id].pump = "cleanup"
    /\ ufSocks' = [ufSocks EXCEPT ![id].pump = "done", ![id].state = "closed"]
    /\ ufClients' = RemoveClient(ufClients, ufSocks[id].client)
    /\ ufLockedIO' = {"close"}
    /\ UNCHANGED <<ufOutside, ctxDone, ufConn, ufPc, ufCur, ufSrv, ufIn, ufStop>>

UFPumpStep(id) == UFPumpTimeout(id) \/ UFPumpReadErr(id) \/ UFPumpCleanup(id)

\* Stop: `f.conn.Close()`.
UFStopCall ==
    /\ ufStop = "idle"
    /\ ufConn # Nil
    /\ ufConn' = "closed"
    /\ ufStop' = "closing"
    /\ UNCHANGED <<ufBase, ctxDone, ufPc, ufCur, ufSrv, ufClients, ufSocks, ufIn>>

\* Stop, under the lock: `for _, c := range f.clients { c.Close() }`.
UFStopCloseClients ==
    /\ ufStop = "closing"
    /\ ufSocks' = [id \in UFSockIds |->
                     IF \E k \in DOMAIN ufClients : ufClients[k] = id
                     THEN [ufSocks[id] EXCEPT !.state = "closed"]
                     ELSE ufSocks[id]]
    /\ ufStop' = "wait"
    /\ ufLockedIO' = IF DOMAIN ufClients # {} THEN {"close"} ELSE {}
    /\ UNCHANGED <<ufOutside, ctxDone, ufConn, ufPc, ufCur, ufSrv, ufClients, ufIn>>

\* f.wg.Wait() returns: acceptLoop and every reverse pump have called f.wg.Done().
UFStopReturn ==
    /\ ufStop = "wait"
    /\ ufPc = "done"
    /\ \A id \in UFSockIds : ufSocks[id].pump = "done"
    /\ ufStop' = "returned"
    /\ UNCHANGED <<ufBase, ctxDone, ufConn, ufPc, ufCur, ufSrv, ufClients, ufSocks, ufIn>>

UFStopStep == UFStopCloseClients \/ UFStopReturn

UFNext ==
    \/ \E k \in UFSources : UFArrive(k)
    \/ UFSelect
    \/ UFRead
    \/ UFReadErr
    \/ UFLookupHit
    \/ UFDialFail
    \/ UFDialOk
    \/ UFWrite
    \/ \E id \in UFSockIds : UFPumpTimeout(id)
    \/ \E id \in UFSockIds : UFPumpReadErr(id)
    \/ \E id \in UFSockIds : UFPumpCleanup(id)
    \/ UFStopCall
    \/ UFStopCloseClients
    \/ UFStopReturn
    \/ Cancel

InitUdpFwd == StunIdle /\ OrchIdle /\ KAIdle /\ PortIdle /\ TFIdle /\ UFInit /\ SFIdle /\ LateIdle

SpecUdpFwd == InitUdpFwd /\ [][UFNext]_vars

\* Every goroutine of the forwarder, and the caller of Stop, keeps running.
SpecUdpFwdLive ==
    /\ SpecUdpFwd
    /\ WF_vars(UFAcceptLoopStep)
    /\ \A id \in 1..MaxSockets : WF_vars(id \in UFSockIds /\ UFPumpStep(id))
    /\ WF_vars(UFStopStep)

\* Run's forwarders: a TCP forwarder or a UDP forwarder, started with the root context.
InitFwd == InitTcpFwd \/ InitUdpFwd

SpecFwd == InitFwd /\ [][TFNext \/ UFNext]_vars

(***************************************************************************)
(* internal/status: handleEvent with writeFile step by step, as a reader   *)
(* of the status file sees it.                                             *)
(***************************************************************************)
\* The state outside the status manager.
sfBase == <<stunVars, orchVars, kaVars, portVars, tfVars, ufVars, lateVars>>

\* The events the control loops send: two TCP endpoints and one UDP endpoint,
\* each with the outer its probe returned.
SFEvents ==
    {[Protocol |-> "tcp", InnerAddr |-> <<OutboundIP, p>>, OuterAddr |-> <<o.ip, o.port>>] :
        p \in {34567, 34569}, o \in NatOuters}
    \cup {[Protocol |-> "udp", InnerAddr |-> <<"127.0.0.1", 34568>>,
           OuterAddr |-> <<OuterA.ip, OuterA.port>>]}

\* NewManager: the file is opened with O_TRUNC and both protocol maps are empty.
SFInit ==
    /\ sfTable = [p \in {"tcp", "udp"} |-> <<>>]
    /\ sfFile = EmptyFile
    /\ sfPc = "idle"
    /\ sfEvents = 0
    /\ sfWrote = {}

\* (mutant) the file is not truncated.
TruncateSkipped(content) == content

\* `m.file.Truncate(0)`
Truncate(content) == EmptyFile

\* The encoder's one Write of the document at offset 0: bytes of an earlier
\* content that the document does not cover stay behind it.
WriteAt0(content, doc) ==
    IF content = EmptyFile \/ content = doc THEN doc
    ELSE [state |-> "mixed", head |-> doc, tail |-> content]

\* `case ev := <-m.Updates: m.handleEvent(ev)` up to `protocolMap[ev.InnerAddr] = ev.OuterAddr`.
SFHandle(ev) ==
    /\ sfPc = "idle"
    /\ sfEvents < MaxEvents
    /\ sfEvents' = sfEvents + 1
    /\ IF Unchanged(sfTable, ev)
       THEN UNCHANGED <<sfTable, sfPc>>
       ELSE /\ sfTable' = SetMapping(sfTable, ev)
            /\ sfPc' = "truncate"
    /\ UNCHANGED <<sfBase, sfFile, sfWrote>>

\* writeFile: `m.file.Seek(0, 0)` and `m.file.Truncate(0)` succeed.
SFTruncate ==
    /\ sfPc = "truncate"
    /\ sfFile' = Truncate(sfFile)
    /\ sfPc' = "encode"
    /\ UNCHANGED <<sfBase, sfTable, sfEvents, sfWrote>>

\* writeFile: Seek or Truncate fails and writeFile returns the error, which
\* handleEvent logs; the file is as it was.
SFTruncateErr ==
    /\ sfPc = "truncate"
    /\ sfPc' = "hook"
    /\ UNCHANGED <<sfBase, sfTable, sfFile, sfEvents, sfWrote>>

\* writeFile: `enc.Encode(tmp)` writes the document, in one Write.
SFEncode ==
    /\ sfPc = "encode"
    /\ \E doc \in writeFile(sfTable) :
         /\ sfFile' = WriteAt0(sfFile, doc)
         /\ sfWrote' = sfWrote \cup {[table |-> sfTable, doc |-> doc]}
    /\ sfPc' = "hook"
    /\ UNCHANGED <<sfBase, sfTable, sfEvents>>

\* writeFile: the Write fails and nothing is written.
SFEncodeErr ==
    /\ sfPc = "encode"
    /\ sfPc' = "hook"
    /\ UNCHANGED <<sfBase, sfTable, sfFile, sfEvents, sfWrote>>

\* handleEvent: the hook is started and handleEvent returns.
SFHook ==
    /\ sfPc = "hook"
    /\ sfPc' = "idle"
    /\ UNCHANGED <<sfBase, sfTable, sfFile, sfEvents, sfWrote>>

SFNext ==
    \/ \E ev \in SFEvents : SFHandle(ev)
    \/ SFTruncate
    \/ SFTruncateErr
    \/ SFEncode
    \/ SFEncodeErr
    \/ SFHook

InitFile ==
    StunIdle /\ OrchIdle /\ KAIdle /\ PortIdle /\ TFIdle /\ UFIdle /\ SFInit /\ LateIdle

SpecFile == InitFile /\ [][SFNext]_vars

(***************************************************************************)
(* The TCP control loops and the status manager on a clock.  A probe is a  *)
(* call that is in flight from FRCall to FRReturn; each server tried       *)
(* answers or fails within the client's timeout; the wait ends once        *)
(* n.interval has passed.  The root context is not cancelled.              *)
(***************************************************************************)
\* stun.NewClient(cfg.StunServer.TCP, cfg.StunServer.UDP, time.Second, logger): c.timeout.
StunTimeout == 1

\* n.interval: time.Duration(cfg.Interval) * time.Second.
ProbeInterval == 3

\* The state outside the timed loops.
frBase == <<stunVars, orchVars, kaVars, portVars, tfVars, ufVars, sfVars, nwVars>>

\* Run's loop over n.tcpOpens: one runWorker per entry.
FREndpoints == {e \in Endpoints : e.proto = "tcp"}

\* No STUN response has been received.
NotSeen == [at |-> -1, outer |-> EmptyString]

FRInit ==
    /\ frNow = 0
    /\ frPc = [e \in FREndpoints |-> "call"]
    /\ frSince = [e \in FREndpoints |-> 0]
    /\ frLast = [e \in FREndpoints |-> EmptyString]
    /\ frOuter = [e \in FREndpoints |-> EmptyString]
    /\ frFlying = [e \in FREndpoints |-> 0]
    /\ frQueue = <<>>
    /\ frTable = [p \in {"tcp", "udp"} |-> <<>>]
    /\ frSeen = [e \in FREndpoints |-> NotSeen]

\* (mutant) the probe is started without waiting for its result.
DetachedCall(pc) == pc

\* `res, e := n.stunClient.GetTCPMapping(...)`: the loop waits for the call to return.
BlockingCall(pc) == "flight"

\* runWorker: a fresh `var outer string`, and the call of the STUN client.
FRCall(e) ==
    /\ frPc[e] = "call"
    /\ frPc' = [frPc EXCEPT ![e] = BlockingCall(frPc[e])]
    /\ frFlying' = [frFlying EXCEPT ![e] = frFlying[e] + 1]
    /\ frSince' = [frSince EXCEPT ![e] = frNow]
    /\ frOuter' = [frOuter EXCEPT ![e] = EmptyString]
    /\ UNCHANGED <<frBase, frNow, frLast, frQueue, frTable, frSeen>>

\* The longest a call that returned from server `tried` can have taken.
CallLimit(tried) == Min(tried, Len(tcpServers)) * StunTimeout

\* GetTCPMapping returns, and runWorker decides: `if err != nil {...} else if outer != lastOuter`.
FRReturn(e) ==
    /\ frPc[e] = "flight"
    /\ \E outs \in [1..Len(tcpServers) -> TCPOutcomes] :
         LET res == GetTCPMapping(tcpServers, outs, OuterA, OutboundIP, AddrOf(e).port, 1)
             o == IF res.err = Nil THEN FormatOuter(res.mapping) ELSE EmptyString
         IN /\ frNow - frSince[e] <= CallLimit(res.tried)
            /\ frOuter' = [frOuter EXCEPT ![e] = o]
            /\ frPc' = [frPc EXCEPT ![e] =
                          IF res.err # Nil THEN "sleep"
                          ELSE IF Changed(o, frLast[e]) THEN "send" ELSE "sleep"]
            /\ frSeen' = [frSeen EXCEPT ![e] =
                            IF res.err = Nil /\ outs[res.tried] = "ok"
                            THEN [at |-> frNow, outer |-> o] ELSE frSeen[e]]
    /\ frFlying' = [frFlying EXCEPT ![e] = frFlying[e] - 1]
    /\ frSince' = [frSince EXCEPT ![e] = frNow]
    /\ UNCHANGED <<frBase, frNow, frLast, frQueue, frTable>>

\* `n.statusMgr.Updates <- status.UpdateEvent{...}; lastOuter = outer`
FRSend(e) ==
    /\ frPc[e] = "send"
    /\ Len(frQueue) < UpdatesCap
    /\ frQueue' = Append(frQueue, [Protocol |-> e.proto, InnerAddr |-> InnerOf(e),
                                   OuterAddr |-> frOuter[e]])
    /\ frLast' = [frLast EXCEPT ![e] = frOuter[e]]
    /\ frPc' = [frPc EXCEPT ![e] = "sleep"]
    /\ frSince' = [frSince EXCEPT ![e] = frNow]
    /\ UNCHANGED <<frBase, frNow, frOuter, frFlying, frTable, frSeen>>

\* `case <-time.After(n.interval):`
FRWake(e) ==
    /\ frPc[e] = "sleep"
    /\ frNow >= frSince[e] + ProbeInterval
    /\ frPc' = [frPc EXCEPT ![e] = "call"]
    /\ UNCHANGED <<frBase, frNow, frSince, frLast, frOuter, frFlying, frQueue, frTable, frSeen>>

\* StatusManager.Run, `case ev := <-m.Updates: m.handleEvent(ev)`: the table and,
\* with it, the status file.
FRHandle ==
    /\ frQueue # <<>>
    /\ frTable' = IF Unchanged(frTable, Head(frQueue)) THEN frTable
                  ELSE SetMapping(frTable, Head(frQueue))
    /\ frQueue' = Tail(frQueue)
    /\ UNCHANGED <<frBase, frNow, frPc, frSince, frLast, frOuter, frFlying, frSeen>>

\* A second passes. No task is slower than its timer or timeout allows, and
\* a task that can run does so before the second is over.
FRTick ==
    /\ frNow < MaxTime
    /\ frQueue = <<>>
    /\ \A e \in FREndpoints :
         /\ frPc[e] \notin {"call", "send"}
         /\ frPc[e] = "flight" => frNow < frSince[e] + Len(tcpServers) * StunTimeout
         /\ frPc[e] = "sleep" => frNow < frSince[e] + ProbeInterval
    /\ frNow' = frNow + 1
    /\ UNCHANGED <<frBase, frPc, frSince, frLast, frOuter, frFlying, frQueue, frTable, frSeen>>

FRNext ==
    \/ \E e \in FREndpoints : FRCall(e)
    \/ \E e \in FREndpoints : FRReturn(e)
    \/ \E e \in FREndpoints : FRSend(e)
    \/ \E e \in FREndpoints : FRWake(e)
    \/ FRHandle
    \/ FRTick

InitTimed ==
    StunIdle /\ OrchIdle /\ KAIdle /\ PortIdle /\ TFIdle /\ UFIdle /\ SFIdle /\ FRInit /\ NWIdle

SpecTimed == InitTimed /\ [][FRNext]_vars

(***************************************************************************)
(* internal/orchestrator: New, "Prepare forwarders".  A string is the      *)
(* sequence of its pieces, the colons being pieces of their own.           *)
(***************************************************************************)
nwBase == <<stunVars, orchVars, kaVars, portVars, tfVars, ufVars, sfVars, frVars>>

Colon == ":"

\* Entries of open_port.tcp and of forward_port.tcp ("IP:Port").
OpenAddrs == {<<"0.0.0.0", Colon, "34567">>, <<"192.168.1.10", Colon, "33887">>}
TargetAddrs == {<<"10.0.0.2", Colon, "8080">>, <<"[fe80", Colon, Colon, "1]", Colon, "22">>}

\* The sequences over S of length 0..n.
SeqsUpTo(S, n) == UNION {[1..k -> S] : k \in 0..n}

\* strings.LastIndex(addr, ":"), as a position 1..Len, or 0 when there is none.
LastIndex(addr, c) ==
    IF \E i \in 1..Len(addr) : addr[i] = c
    THEN CHOOSE i \in 1..Len(addr) : addr[i] = c /\ \A j \in (i + 1)..Len(addr) : addr[j] # c
    ELSE 0

\* strings.Index(addr, ":")
Index(addr, c) ==
    IF \E i \in 1..Len(addr) : addr[i] = c
    THEN CHOOSE i \in 1..Len(addr) : addr[i] = c /\ \A j \in 1..(i - 1) : addr[j] # c
    ELSE 0

\* (mutant) the port starts after the first colon.
portOfFirstColon(addr) == SubSeq(addr, Index(addr, Colon) + 1, Len(addr))

\* portOf: `idx := strings.LastIndex(addr, ":"); return addr[idx+1:]`
portOf(addr) == SubSeq(addr, LastIndex(addr, Colon) + 1, Len(addr))

\* forward.NewTCPForwarder(listenAddr, target, logger)
NewTCPForwarder(listenAddr, targetAddr) == [ListenAddr |-> listenAddr, TargetAddr |-> targetAddr]

NewInit ==
    /\ nwCfg \in [open : SeqsUpTo(OpenAddrs, MaxList), forward : SeqsUpTo(TargetAddrs, MaxList)]
    /\ nwFwds = <<>>
    /\ nwPc = "prepare"

\* `if len(cfg.OpenPort.TCP) == len(cfg.ForwardPort.TCP)`: one turn of
\* `for i, target := range cfg.ForwardPort.TCP` with listenAddr := cfg.OpenPort.TCP[i].
NewPairByIndex ==
    /\ nwPc = "prepare"
    /\ Len(nwCfg.open) = Len(nwCfg.forward)
    /\ Len(nwFwds) < Len(nwCfg.forward)
    /\ LET i == Len(nwFwds) + 1
       IN nwFwds' = Append(nwFwds, NewTCPForwarder(nwCfg.open[i], nwCfg.forward[i]))
    /\ UNCHANGED <<nwBase, nwCfg, nwPc>>

\* The else branch: one turn of `for _, target := range cfg.ForwardPort.TCP` with
\* listenAddr := "0.0.0.0:" + portOf(target).
NewListenOnTargetPort ==
    /\ nwPc = "prepare"
    /\ Len(nwCfg.open) # Len(nwCfg.forward)
    /\ Len(nwFwds) < Len(nwCfg.forward)
    /\ LET target == nwCfg.forward[Len(nwFwds) + 1]
       IN nwFwds' = Append(nwFwds,
                           NewTCPForwarder(<<"0.0.0.0", Colon>> \o portOf(target), target))
    /\ UNCHANGED <<nwBase, nwCfg, nwPc>>

\* `return n, nil`
NewReturn ==
    /\ nwPc = "prepare"
    /\ Len(nwFwds) = Len(nwCfg.forward)
    /\ nwPc' = "done"
    /\ UNCHANGED <<nwBase, nwCfg, nwFwds>>

NewNext == NewPairByIndex \/ NewListenOnTargetPort \/ NewReturn

InitNew ==
    StunIdle /\ OrchIdle /\ KAIdle /\ PortIdle /\ TFIdle /\ UFIdle /\ SFIdle /\ FRIdle /\ NewInit

SpecNew == InitNew /\ [][NewNext]_vars

Init == StunIdle /\ OrchInit /\ KAIdle /\ PortIdle /\ ExtIdle

Next ==
    \/ \E e \in Endpoints : WorkerProbe(e)
    \/ \E e \in Endpoints : WorkerSend(e)
    \/ \E e \in Endpoints : WorkerReturn(e)
    \/ SMHandle
    \/ SMExit
    \/ Drift
    \/ Cancel

Spec == Init /\ [][Next]_vars

StunNext ==
    /\ (CallGetUDPMapping \/ CallGetTCPMapping)
    /\ UNCHANGED <<extVars, orchVars, kaVars, portVars>>

InitStun == StunInit /\ OrchIdle /\ KAIdle /\ PortIdle /\ ExtIdle

SpecStun == InitStun /\ [][StunNext]_vars

(***************************************************************************)
(* Properties of the STUN client (SpecStun).                               *)
(***************************************************************************)
Returned == stun.proto # "none" /\ stun.res # Pending

\* The servers that answer with XOR-MAPPED-ADDRESS.
Answering == {i \in 1..Len(stun.servers) : stun.outs[i] = "ok"}

Least(S) == CHOOSE i \in S : \A j \in S : i <= j

\* C4: GetUDPMapping tries the UDP servers in configured order; a server whose
\* transaction ends in an error (timeout, transport error, response without
\* XOR-MAPPED-ADDRESS) yields no mapping and the next server is tried; a mapping
\* is returned only from a server whose transaction succeeded and carried
\* XOR-MAPPED-ADDRESS.
C4_UDPFailover ==
    (Returned /\ stun.proto = "udp") =>
        /\ \A i \in 1..Len(stun.servers) : i < stun.res.tried => stun.outs[i] # "ok"
        /\ stun.res.err = Nil =>
              /\ stun.res.tried \in Answering
              /\ stun.res.mapping = Mapping(stun.bindIP, stun.srcPort, stun.nat)
        /\ Answering = {} => stun.res.err # Nil /\ stun.res.mapping = NoMapping

\* C5: GetTCPMapping tries the TCP servers in configured order and returns the
\* mapping of the first server whose dial and transaction both succeed; a dial
\* error, a transaction error or a response without XOR-MAPPED-ADDRESS makes it
\* try the next server; with the list exhausted it returns the one error
\* "all TCP STUN servers failed" and no mapping.
C5_TCPFailover ==
    (Returned /\ stun.proto = "tcp") =>
        IF Answering = {}
        THEN /\ stun.res.err = "all TCP STUN servers failed"
             /\ stun.res.mapping = NoMapping
             /\ stun.res.tried = Len(stun.servers) + 1
        ELSE /\ stun.res.err = Nil
             /\ stun.res.tried = Least(Answering)
             /\ stun.res.mapping = Mapping(stun.bindIP, stun.srcPort, stun.nat)

\* C5 witness: the first TCP server's transaction timed out or lacked the
\* attribute, and the call returned the second server's mapping.
C5_Witness ==
    /\ Returned /\ stun.proto = "tcp"
    /\ Len(stun.servers) >= 2
    /\ stun.outs[1] \in {"timeout", "no_xor"}
    /\ stun.res.err = Nil /\ stun.res.tried = 2

(***************************************************************************)
(* Properties of the control loops and the status manager (Spec).          *)
(***************************************************************************)
RECURSIVE SumOver(_, _)
SumOver(f, S) ==
    IF S = {} THEN 0
    ELSE LET x == CHOOSE y \in S : TRUE IN f[x] + SumOver(f, S \ {x})

\* The number of hook commands spawned for one inner address.
HooksFor(inner) == SumOver(hooks, {c \in DOMAIN hooks : c.inner = inner})

\* The events waiting in the channel that carry one inner address.
Queued(proto, inner) ==
    {i \in 1..Len(Updates) : Updates[i].Protocol = proto /\ Updates[i].InnerAddr = inner}

\* No other endpoint publishes under e's (protocol, inner).
OwnInner(e) == \A f \in Endpoints : (f.proto = e.proto /\ InnerOf(f) = InnerOf(e)) => f = e

C2_DriftTwoEvents ==
    \A e \in Endpoints :
        (OwnInner(e) /\ Len(resp[e]) = 2 /\ wpc[e] # "send") =>
            /\ enq[e] = 2
            /\ (Queued(e.proto, InnerOf(e)) = {}) => HooksFor(InnerOf(e)) = 2

\* C3: handling an event whose outer equals table[protocol][inner] changes
\* nothing: table, status file and spawned hooks stay as they are; and the
\* document never lists an inner twice.
C3_DedupNoOp ==
    /\ [][(/\ smPc = "run" /\ Updates # <<>> /\ Updates' = Tail(Updates)
           /\ Head(Updates).InnerAddr \in DOMAIN mappings[Head(Updates).Protocol]
           /\ mappings[Head(Updates).Protocol][Head(Updates).InnerAddr] = Head(Updates).OuterAddr)
          => (mappings' = mappings /\ file' = file /\ fileWrites' = fileWrites /\ hooks' = hooks)
         ]_vars
    /\ [](file.state = "doc" =>
            \A p \in {"tcp", "udp"} :
                \A i, j \in 1..Len(file[p]) : file[p][i].inner = file[p][j].inner => i = j)

\* C3 witness: more events were handled than the file was rewritten: one was a duplicate.
C3_Witness == SumOver(enq, Endpoints) - Len(Updates) > fileWrites

\* C6: when all UDP STUN servers are unreachable, the UDP control loop never
\* enqueues an UpdateEvent, and table and file stay without a UDP record.
C6_UnreachableSilent ==
    \A e \in Endpoints :
        (e.proto = "udp" /\ "udp" \in down) =>
            /\ enq[e] = 0 /\ wpc[e] # "send"
            /\ DOMAIN mappings["udp"] = {}
            /\ file.state = "doc" => file.udp = <<>>

(***************************************************************************)
(* Properties of the TCP keep-alive loop (SpecKA).                         *)
(***************************************************************************)
\* The waits of one disconnected stretch follow b(n+1) = min(2 b(n), 60 s) from b(0) = interval.
BackoffRecurrence ==
    /\ kaWaits # <<>> => kaWaits[1] = kaInterval
    /\ \A n \in 1..(Len(kaWaits) - 1) : kaWaits[n + 1] = Min(2 * kaWaits[n], BackoffCeiling)

BackoffNeverDecreases == \A n \in 1..(Len(kaWaits) - 1) : kaWaits[n + 1] >= kaWaits[n]

BackoffResetOnConnect == kaConn = "open" => kaBackoff = kaInterval

\* C9 (as stated): for every configured interval the waits follow the recurrence
\* and never decrease from one failed dial to the next; a successful dial resets
\* the backoff to interval.
C9_BackoffMonotone ==
    kaPc # "off" => BackoffRecurrence /\ BackoffNeverDecreases /\ BackoffResetOnConnect

\* C9 (amended): the recurrence and the reset hold for every interval; the waits
\* never decrease when the interval is at most 60 s.
C9_BackoffMonotoneUpTo60 ==
    kaPc # "off" =>
        /\ BackoffRecurrence
        /\ BackoffResetOnConnect
        /\ kaInterval <= BackoffCeiling => BackoffNeverDecreases

\* C9 witness: after failed dials the wait has grown from an interval below 60 s
\* to the ceiling and stayed there.
C9_Witness ==
    /\ Len(kaWaits) >= 3
    /\ kaWaits[1] < BackoffCeiling
    /\ kaWaits[Len(kaWaits) - 1] = BackoffCeiling
    /\ kaWaits[Len(kaWaits)] = BackoffCeiling

\* C10: after an established connection died the loop waits before it dials
\* again: between two consecutive dial attempts there is at least one wait; and
\* every dial is bound to the same local address laddr.
C10_RedialAfterWait ==
    /\ (kaPc = "top" /\ kaConn = Nil /\ kaDials > 0) => kaWaited
    /\ kaDialed \subseteq {kaLaddr}

(***************************************************************************)
(* Properties of the sockets on the monitored ports (SpecPort).            *)
(***************************************************************************)
\* C7: every TCP socket on a monitored port (STUN probe dialer, forwarder
\* listener, keep-alive dialer) is created with the address-reuse options, and
\* no bind of one of them fails because another of them holds the port.
C7_TCPPortShared ==
    /\ \A h \in socks : h.proto = "tcp" => h.reuseaddr /\ h.reuseport
    /\ \A f \in bindFails : f.proto # "tcp"

\* C8: a UDP probe never fails to bind because the keep-alive packet socket of
\* its endpoint holds the port.
C8_UDPPortShared ==
    \A f \in bindFails : ~(f.proto = "udp" /\ f.who = "stun" /\ f.by = "keepalive")

(***************************************************************************)
(* Termination of the control loops after cancellation (Spec).             *)
(***************************************************************************)
\* C11: after root cancellation every control loop can still reach its return
\* from the point it is at: a sleeping loop can take `case <-ctx.Done()`, and a
\* loop enqueuing an UpdateEvent is not blocked for good, that is, the channel
\* has room or the status manager is still receiving.
C11_LoopsTerminate ==
    \A e \in Endpoints :
        /\ (ctxDone /\ wpc[e] = "sleep") => ENABLED WorkerReturn(e)
        /\ (ctxDone /\ wpc[e] = "send" /\ Len(Updates) = UpdatesCap) => smPc = "run"

(***************************************************************************)
(* Termination of the keep-alive loops after cancellation (SpecKALive).    *)
(***************************************************************************)
\* C12: after root cancellation both keep-alive loops eventually exit, from
\* every position, and TCPKeepAlive has closed its connection when it has.
C12_KeepAliveExits ==
    ctxDone ~> (kaPc = "done" /\ kaConn # "open" /\ ukPc = "done")

\* C12 witness: cancelled while connected; both loops have returned and the
\* connection is closed.
C12_Witness == ctxDone /\ kaPc = "done" /\ kaConn = "closed" /\ ukPc = "done"

(***************************************************************************)
(* Properties of the TCP forwarder (SpecTcpFwd).                           *)
(***************************************************************************)
\* C18: a handler that has ended has closed both its sockets; and once the
\* client or the target of a spliced connection has closed its end, the handler
\* is on its way to end the splice: it or one of its copiers can take a step
\* without waiting for anything more from a peer.
C18_SpliceEndsOnClose ==
    \A i \in TFConnIds :
        /\ tfConns[i].h = "done" => tfConns[i].src = "closed" /\ tfConns[i].dst # "open"
        /\ (tfConns[i].h = "splice"
              /\ (tfConns[i].client = "closed" \/ tfConns[i].target = "closed"))
           => ENABLED HandlerStep(i)

(***************************************************************************)
(* Properties of the UDP forwarder (SpecUdpFwd, SpecUdpFwdLive).           *)
(***************************************************************************)
\* The open sub-sockets of one client source address.
OpenSubSockets(k) == {id \in UFSockIds : ufSocks[id].client = k /\ ufSocks[id].state = "open"}

\* C15: in every reachable state there is at most one open sub-socket per
\* client source address.
C15_OneSubSocketPerSource == \A k \in UFSources : Cardinality(OpenSubSockets(k)) <= 1

\* C15 witness: a client's first sub-socket is closed and its second one is open
\* and is the map's entry.
C15_Witness ==
    \E k \in UFSources : \E i, j \in UFSockIds :
        /\ i < j /\ ufSocks[i].client = k /\ ufSocks[j].client = k
        /\ ufSocks[i].state = "closed" /\ ufSocks[j].state = "open"
        /\ HasClient(ufClients, k) /\ ufClients[k] = j

\* C16: when a reverse pump ends, its sub-socket is closed and the map has no
\* entry for its client; and a datagram that is forwarded when every earlier pump
\* of its client has ended goes to a new sub-socket with a new reverse pump.
C16_SessionGC ==
    /\ [][\A id \in UFSockIds :
            (ufSocks[id].pump # "done" /\ ufSocks'[id].pump = "done") =>
                /\ ufSocks'[id].state = "closed"
                /\ ~(ufSocks[id].client \in DOMAIN ufClients')
         ]_vars
    /\ [][(/\ ufPc = "lookup" /\ ufPc' = "write"
           /\ \A id \in UFSockIds : ufSocks[id].client = ufCur => ufSocks[id].pump = "done")
          => /\ Len(ufSocks') = Len(ufSocks) + 1
             /\ ufSocks'[Len(ufSocks')] = [client |-> ufCur, state |-> "open", pump |-> "read"]
             /\ ufClients'[ufCur] = Len(ufSocks')
             /\ ufSrv' = Len(ufSocks')
         ]_vars

\* C16 witness: the pump of a client's first sub-socket has ended and the datagram
\* being forwarded goes to the client's second sub-socket, whose pump reads.
C16_Witness ==
    \E i, j \in UFSockIds :
        /\ i < j /\ ufSocks[i].client = ufCur /\ ufSocks[j].client = ufCur
        /\ ufSocks[i].pump = "done"
        /\ ufSocks[j].pump = "read" /\ ufSocks[j].state = "open"
        /\ ufPc = "write" /\ ufSrv = j

\* C17: Stop, once called on a started forwarder, eventually returns, whether or
\* not the context is cancelled; and when it has returned, acceptLoop and every
\* reverse pump have terminated.
C17_StopReturns ==
    /\ (ufStop # "idle") ~> (ufStop = "returned")
    /\ [](ufStop = "returned" =>
            ufPc = "done" /\ \A id \in UFSockIds : ufSocks[id].pump = "done")

(***************************************************************************)
(* Forwarders after cancellation (SpecFwd).                                *)
(***************************************************************************)
\* C13: after root cancellation the accept task of a started forwarder that has
\* not terminated can take a step by itself, with no Stop and no further
\* connection or datagram: it is not left blocked in Accept or ReadFromUDP.
C13_AcceptObservesCancel ==
    /\ (ctxDone /\ tfPc \notin {"off", "done"}) => ENABLED TFAcceptLoopStep
    /\ (ctxDone /\ ufPc \notin {"off", "done"}) => ENABLED UFAcceptLoopStep

(***************************************************************************)
(* Shutdown (SpecPort).                                                    *)
(***************************************************************************)
\* C14: when Run has returned after root cancellation, every goroutine it
\* started has terminated and every socket it opened is closed.
C14_ShutdownReleasesAll == runPc = "returned" => (tasks = {} /\ socks = {})

C20_SameTableSameDocument ==
    \A v, w \in sfWrote : v.table = w.table => v.doc = w.doc

(***************************************************************************)
(* Properties of the control loops on the clock (SpecTimed).               *)
(***************************************************************************)
\* C21: every record (inner -> outer) of the status file was produced by a
\* successful STUN observation of that endpoint no longer than
\* interval + stun_timeout ago, also once the endpoint's probes fail.
C21_Freshness ==
    \A inner \in DOMAIN frTable["tcp"] :
        \E e \in FREndpoints :
            /\ InnerOf(e) = inner
            /\ frSeen[e] # NotSeen
            /\ frSeen[e].outer = frTable["tcp"][inner]
            /\ frNow - frSeen[e].at <= ProbeInterval + StunTimeout

\* The probes in flight on one (protocol, port), over the control loops that name it.
RECURSIVE FlyingOn(_, _)
FlyingOn(k, es) ==
    IF es = {} THEN 0
    ELSE LET e == CHOOSE x \in es : TRUE
         IN (IF NatKey(e) = k THEN frFlying[e] ELSE 0) + FlyingOn(k, es \ {e})

\* C22 as stated: at most one STUN probe is in flight per (protocol, port), also
\* when two endpoints of one protocol name the same port.
C22_OneProbePerPort ==
    \A k \in {NatKey(e) : e \in FREndpoints} : FlyingOn(k, FREndpoints) <= 1

\* C22 amended: at most one STUN probe is in flight per endpoint, that is per
\* control loop.
C22_OneProbePerEndpoint == \A e \in FREndpoints : frFlying[e] <= 1

\* C22 witness: an endpoint's second probe is in flight.
C22_Witness ==
    \E e \in FREndpoints : frFlying[e] = 1 /\ frLast[e] # EmptyString /\ frPc[e] = "flight"

(***************************************************************************)
(* Properties of the sockets of an endpoint (SpecPort).                    *)
(***************************************************************************)
\* The open endpoint of a protocol.
OpenEndpoint(proto) == IF proto = "tcp" THEN portCfg.tcp ELSE portCfg.udp

\* C23: at all times every STUN probe socket of an endpoint is bound to the
\* endpoint's port, and so is the endpoint's keep-alive socket.
C23_SocketsOnEndpointPort ==
    \A h \in socks :
        h.owner \in {"stun", "keepalive"} => h.port = OpenEndpoint(h.proto).port

\* C23 witness: a TCP probe is in flight while the UDP endpoint's keep-alive socket is open.
C23_Witness ==
    /\ \E h \in socks : h.owner = "stun" /\ h.proto = "tcp"
    /\ \E h \in socks : h.owner = "keepalive" /\ h.proto = "udp"

(***************************************************************************)
(* Order of the events through the Updates channel (Spec).                 *)
(***************************************************************************)
\* C24: the status manager handles the events in the order they were enqueued:
\* the event it takes is the oldest of the channel and every enqueue appends, so
\* once the channel has drained the table holds, for every inner, the outer of
\* the last event enqueued for it.
C24_PerProducerFIFO ==
    /\ [](Updates = <<>> =>
            \A p \in DOMAIN lastEnq : \A i \in DOMAIN lastEnq[p] :
                i \in DOMAIN mappings[p] /\ mappings[p][i] = lastEnq[p][i])
    /\ [][/\ Len(Updates') < Len(Updates) =>
                /\ Updates' = Tail(Updates)
                /\ mappings'[Head(Updates).Protocol][Head(Updates).InnerAddr]
                       = Head(Updates).OuterAddr
          /\ Len(Updates') > Len(Updates) =>
                \E ev \in {Updates'[Len(Updates')]} : Updates' = Append(Updates, ev)
        ]_vars

\* C24 witness: one loop enqueued two events, with different outers, and the
\* channel has drained.
C24_Witness ==
    /\ Updates = <<>>
    /\ \E e \in Endpoints : enq[e] = 2 /\ mappings[e.proto][InnerOf(e)] = <<OuterB.ip, OuterB.port>>

(***************************************************************************)
(* Properties of New (SpecNew).                                            *)
(***************************************************************************)
\* The port of a target "host:port": its last piece.
TargetPort(target) == target[Len(target)]

\* C25: New creates one TCP forwarder per forward_port.tcp target; with as many
\* open_port.tcp entries as targets, forwarder i listens on open_port.tcp[i] and
\* targets forward_port.tcp[i]; otherwise forwarder i listens on
\* 0.0.0.0:<port of target i> and targets forward_port.tcp[i].
C25_ForwarderPairing ==
    nwPc = "done" =>
        /\ Len(nwFwds) = Len(nwCfg.forward)
        /\ \A i \in 1..Len(nwFwds) :
             /\ nwFwds[i].TargetAddr = nwCfg.forward[i]
             /\ nwFwds[i].ListenAddr =
                   IF Len(nwCfg.open) = Len(nwCfg.forward)
                   THEN nwCfg.open[i]
                   ELSE <<"0.0.0.0", Colon, TargetPort(nwCfg.forward[i])>>

\* C25 witness: New has returned two forwarders that listen on their targets' ports.
C25_Witness ==
    /\ nwPc = "done" /\ Len(nwFwds) = 2 /\ Len(nwCfg.open) = 1
    /\ nwFwds[1].TargetAddr # nwFwds[2].TargetAddr

\* The paired mode: New has returned two forwarders paired by index.
C25_PairedWitness == nwPc = "done" /\ Len(nwFwds) = 2 /\ Len(nwCfg.open) = 2

\* The sockets of the endpoint of one protocol that an owner holds.
SocketsOf(owner, proto) == {h \in socks : h.owner = owner /\ h.proto = proto}

\* The endpoints configured with the unspecified address.
UnspecifiedProtos == {p \in {"tcp", "udp"} : OpenEndpoint(p).ip = UnspecifiedIP}

\* The inner string of an endpoint configured as 0.0.0.0:port is <outbound IP>:port.
InnerSubstituted ==
    \A p \in UnspecifiedProtos :
        formatInner(OpenEndpoint(p), OutboundIP) = <<OutboundIP, OpenEndpoint(p).port>>

\* C26 as stated: for an endpoint configured as 0.0.0.0:port the inner string is
\* <outbound IP>:port while its STUN probe and keep-alive sockets are bound to
\* the unspecified address.
C26_SocketsBoundUnspecified ==
    /\ InnerSubstituted
    /\ \A p \in UnspecifiedProtos :
         \A h \in SocketsOf("stun", p) \cup SocketsOf("keepalive", p) : h.ip = UnspecifiedIP

\* C26 amended: the inner string is <outbound IP>:port; the STUN probe sockets
\* and the TCP keep-alive socket are bound to the detected outbound IP; the UDP
\* keep-alive socket and the forwarder's listener are bound to the unspecified
\* address.
C26_SocketsBoundOutbound ==
    /\ InnerSubstituted
    /\ \A p \in UnspecifiedProtos :
         /\ \A h \in SocketsOf("stun", p) : h.ip = OutboundIP
         /\ \A h \in SocketsOf("forwarder", p) : h.ip = UnspecifiedIP
         /\ \A h \in SocketsOf("keepalive", p) :
              h.ip = IF p = "tcp" THEN OutboundIP ELSE UnspecifiedIP

\* C26 witness: with both endpoints configured as 0.0.0.0:port, the listener, a
\* TCP probe socket and the UDP keep-alive socket are open.
C26_Witness ==
    /\ UnspecifiedProtos = {"tcp", "udp"}
    /\ SocketsOf("stun", "tcp") # {}
    /\ SocketsOf("forwarder", "tcp") # {}
    /\ SocketsOf("keepalive", "udp") # {}

(***************************************************************************)
(* The Connected step of TCPKeepAlive (SpecKA).                            *)
(***************************************************************************)
\* C27: with a connection, an iteration writes one request, at its top: the
\* write either succeeds, and the loop drains, or fails, and the connection is
\* dropped (Disconnected); the drain ends in the wait, with the connection kept
\* (read timeout) or dropped (another read error); the next request is written
\* only after the wait of interval has ended, on the same connection.
C27_ConnectedStep ==
    [][/\ (kaPc = "top" /\ kaConn = "open") =>
              \/ kaPc' = "read" /\ kaConn' = kaConn
              \/ kaPc' = "top" /\ kaConn' = Nil
       /\ kaPc' = "read" => kaPc = "top" /\ kaConn = "open"
       /\ kaPc = "read" => kaPc' = "wait" /\ kaConn' \in {kaConn, Nil}
       /\ kaPc = "wait" =>
              \/ kaPc' = "top" /\ kaConn' = kaConn /\ kaWaited'
              \/ kaPc' = "done"
      ]_<<kaPc, kaConn>>

\* C27 witness: the loop is in its wait with the connection it has already
\* waited on once: a second cycle of Connected on the same connection.
C27_Witness == kaPc = "wait" /\ kaConn = "open" /\ kaWaited

(***************************************************************************)
(* The UDP forwarder's clients-map lock (SpecUdpFwd).                      *)
(***************************************************************************)
\* C28: no holder of the clients-map lock resolves a name, dials, closes, reads
\* or writes a socket while it holds the lock.
C28_NoIOUnderLock == ufLockedIO = {}

(***************************************************************************)
(* TCPForwarder.Stop (SpecTcpFwd).                                         *)
(***************************************************************************)
\* C29: when Stop has returned, acceptLoop and every connection handler, with
\* both of its copiers, have terminated; and no connection is accepted once
\* Stop has closed the listener.
C29_StopJoins ==
    /\ [](tfStop = "returned" =>
            /\ tfPc = "done"
            /\ \A i \in TFConnIds :
                 tfConns[i].h = "done" /\ tfConns[i].up # "run" /\ tfConns[i].down # "run")
    /\ [][tfListener = "closed" => Len(tfConns') = Len(tfConns)]_vars

\* C29 witness: Stop has returned after a spliced connection ended.
C29_Witness ==
    /\ tfStop = "returned"
    /\ \E i \in TFConnIds : tfConns[i].up = "done" /\ tfConns[i].down = "done"

(***************************************************************************)
(* The content of the documents written (SpecFile).                        *)
(***************************************************************************)
\* The elements of a sequence.
Range(q) == {q[i] : i \in 1..Len(q)}

\* C30: every document written has the two top-level keys tcp and udp, and under
\* each the (inner, outer) pairs of the table at the time of the write, one
\* record per inner.
C30_DocumentMatchesTable ==
    \A w \in sfWrote :
        /\ DOMAIN w.doc \ {"state"} = {"tcp", "udp"}
        /\ \A p \in {"tcp", "udp"} :
             /\ Len(w.doc[p]) = Cardinality(DOMAIN w.table[p])
             /\ Range(w.doc[p]) = {[inner |-> i, outer |-> w.table[p][i]] : i \in DOMAIN w.table[p]}
             /\ \A i, j \in 1..Len(w.doc[p]) : w.doc[p][i].inner = w.doc[p][j].inner => i = j

\* C30 witness: a document was written from a table with two TCP entries and a UDP entry.
C30_Witness ==
    \E w \in sfWrote : Cardinality(DOMAIN w.table["tcp"]) = 2 /\ DOMAIN w.table["udp"] # {}

(***************************************************************************)
(* Startup of Run when a bind or listen fails (SpecPort).                  *)
(***************************************************************************)
\* The i-th forwarder's listen succeeded: its listener is open.
Listening(i) == ListenerSocket(ListenAddrs[i]) \in socks

\* C31: a failed listen of a forwarder or of the UDP keep-alive socket is not
\* fatal to the startup. Whatever the outcome of the first forwarder's Start,
\* Run turns to the second forwarder; and once the startup is over (before any
\* cancellation) the status manager, the TCP keep-alive loop and the control
\* loop of both open endpoints run, and so do the acceptLoop of every forwarder
\* that is listening and the UDP keep-alive loop when its socket was obtained.
C31_NoCascadingFailure ==
    /\ [][(runPc = "forwarders" /\ Len(ListenAddrs) = 2) => runPc' = "forwarders2"]_runPc
    /\ []((runPc = "started" /\ ~ctxDone) =>
            /\ {"statusMgr", "keepaliveTCP", "workerTCP", "workerUDP"} \subseteq tasks
            /\ \A i \in 1..Len(ListenAddrs) : Listening(i) => AcceptLoop(i) \in tasks
            /\ SocketsOf("keepalive", "udp") # {} => "keepaliveUDP" \in tasks)

\* C31 witness: the startup is over; the first of two forwarders failed to
\* listen and the second is accepting; the UDP keep-alive socket was not
\* obtained, and the UDP endpoint's control loop runs without a keep-alive loop.
C31_Witness ==
    /\ runPc = "started" /\ ~ctxDone
    /\ Len(ListenAddrs) = 2 /\ ~Listening(1) /\ Listening(2)
    /\ AcceptLoop(2) \in tasks /\ AcceptLoop(1) \notin tasks
    /\ SocketsOf("keepalive", "udp") = {}
    /\ "workerUDP" \in tasks /\ "keepaliveUDP" \notin tasks
    /\ "workerTCP" \in tasks

(***************************************************************************)
(* The probe's sockets (SpecStun).                                         *)
(***************************************************************************)
\* The sockets that are open after the first k events of a call.
OpenAfter(ev, k) ==
    {i \in 1..Len(stun.servers) :
        /\ \E a \in 1..k : ev[a] = SockEv("open", i)
        /\ ~\E b \in 1..k : ev[b] = SockEv("close", i)}

\* C32: when GetUDPMapping or GetTCPMapping has returned, with a mapping or with
\* an error, every socket it opened is closed, and no socket of an earlier
\* server was still open when the socket of a later server was bound.
C32_NoSocketLeak ==
    Returned =>
        /\ OpenAfter(stun.sockets, Len(stun.sockets)) = {}
        /\ \A k \in 1..Len(stun.sockets) :
              stun.sockets[k].op = "open" => OpenAfter(stun.sockets, k - 1) = {}

\* C32 witness: a call that returned an error after it had opened a socket for
\* each of two servers.
C32_Witness ==
    /\ Returned /\ stun.res.err # Nil
    /\ \A i \in 1..2 : \E k \in 1..Len(stun.sockets) : stun.sockets[k] = SockEv("open", i)

(***************************************************************************)
(* Sessions of the UDP forwarder (SpecUdpFwd).                             *)
(***************************************************************************)
\* The reverse pumps of a source address that have not finished their cleanup.
LivePumps(key) == {id \in UFSockIds : ufSocks[id].client = key /\ ufSocks[id].pump # "done"}

\* C33: under every interleaving of acceptLoop, the reverse pumps and Stop, each
\* entry of f.clients has exactly one reverse pump that has not finished its
\* cleanup, the pump of the entry's sub-socket; and the cleanup of a pump removes
\* the entry of its own sub-socket and no other entry.
C33_SessionConsistency ==
    /\ [](\A key \in DOMAIN ufClients : LivePumps(key) = {ufClients[key]})
    /\ [][\A id \in UFSockIds :
            (ufSocks[id].pump = "cleanup" /\ ufSocks'[id].pump = "done") =>
                /\ HasClient(ufClients, ufSocks[id].client)
                /\ ufClients[ufSocks[id].client] = id
                /\ ufClients' = [k \in DOMAIN ufClients \ {ufSocks[id].client} |-> ufClients[k]]]_vars

\* C33 witness: the pump of a source address's first session has finished its
\* cleanup, a newer session of the same address is installed, and the session
\* of the other address is installed too.
C33_Witness ==
    \E old, new \in UFSockIds :
        /\ old < new
        /\ ufSocks[old].client = ufSocks[new].client
        /\ ufSocks[old].pump = "done"
        /\ HasClient(ufClients, ufSocks[new].client)
        /\ ufClients[ufSocks[new].client] = new
        /\ \E k \in DOMAIN ufClients : k # ufSocks[new].client

(***************************************************************************)
(* The connections of TCPKeepAlive (SpecKA).                               *)
(***************************************************************************)
\* C34: the TCP keep-alive loop has at most one open connection at any time,
\* the one its variable conn refers to: a connection it gives up after a write
\* or read error is closed first, none is open once the loop has returned, and
\* it dials only while it holds none.
C34_AtMostOneConnection ==
    /\ [](/\ kaOpen <= 1
          /\ kaOpen = 1 <=> kaConn = "open"
          /\ kaPc = "done" => kaOpen = 0)
    /\ [][kaDials' # kaDials => (kaConn = Nil /\ kaOpen = 0)]_vars

\* C34 witness: the loop has given up a connection after a read error, having
\* dialed twice, and holds none.
C34_Witness == kaPc = "wait" /\ kaConn = Nil /\ kaDials = 2 /\ kaOpen = 0

(***************************************************************************)
(* The accept loop of a started TCP forwarder (SpecTcpFwd).                *)
(***************************************************************************)
\* C35: the accept loop of a started TCP forwarder has terminated only if the
\* root context is cancelled or Stop was called; an Accept error with the
\* listener open does not end it.
C35_AcceptLoopEndsOnShutdownOnly ==
    tfPc = "done" => (ctxDone \/ tfStop # "idle")

====
